---- MODULE Spec2Model ----
(***************************************************************************)
(* Model of mkd2term: the markdown parsing engine (markdown(), pass 1 and   *)
(* pass 2, parse_block/parse_inline and the span matchers, the work-buffer  *)
(* pool) driven by the terminal renderer of mkd2term.c (the to_man hook     *)
(* table and its callbacks).                                                *)
(*                                                                          *)
(* Bytes are one-character strings, buffers are sequences of bytes.  C      *)
(* offsets are kept 0-based: At(data, i) is data[i].  A terminal capability *)
(* string (tigetstr) is two bytes: an escape byte and a byte naming the     *)
(* capability.  The byte NUL is the string "\\0".                           *)
(*                                                                          *)
(* The markdown subset of the model: blank lines, ATX headers, horizontal   *)
(* rules, blockquotes, paragraphs; emphasis (1 to 3 delimiters), code       *)
(* spans, reference links, entities, hard breaks.  The inputs never        *)
(* contain what the other constructs need (tabs, backslashes, '<', '=',     *)
(* '-', '|', '(', list bullets followed by a blank, four-blank indents).    *)
(***************************************************************************)
EXTENDS Integers, Sequences, FiniteSets, TLC

VARIABLES ib, rndr, pc, beg, text, refs, ob, work, trace,
          current_buf, tops, tpc, treg, tob,
          fin, fpos, ibuf, rpc

vars == <<ib, rndr, pc, beg, text, refs, ob, work, trace,
          current_buf, tops, tpc, treg, tob,
          fin, fpos, ibuf, rpc>>

pvars == <<ib, rndr, pc, beg, text, refs, ob, work, trace>>

tvars == <<current_buf, tops, tpc, treg, tob>>

rvars == <<fin, fpos, ibuf, rpc>>

(***************************************************************************)
(* Bounds of the model.                                                     *)
(***************************************************************************)
MaxLen == 5

MaxCeiling == 2

MaxLines == 4

MaxName == 3

\* READ_UNIT of mkd2term.c, the unit of the input buffer, scaled down.
ReadUnit == 2

\* The number of calls of attribute-setting callbacks in one run.
MaxCalls == 3

(***************************************************************************)
(* Byte and buffer helpers.                                                 *)
(***************************************************************************)
NUL == "\\0"

\* The backtick byte (a string cannot hold the character itself).
BACKTICK == "BQ"

At(data, i) == IF i >= 0 /\ i < Len(data) THEN data[i + 1] ELSE NUL

Sub(data, b, e) == IF e <= b THEN <<>> ELSE SubSeq(data, b + 1, e)

From(data, b) == Sub(data, b, Len(data))

Put(data, i, c) == [data EXCEPT ![i + 1] = c]

IsBlank(c) == c = " " \/ c = "\t"

IsSpace(c) == c = " " \/ c = "\t" \/ c = "\n"

Digits == <<"0", "1", "2", "3", "4", "5", "6", "7", "8", "9">>

IsDigit(c) == \E k \in 1..10 : Digits[k] = c

DigitVal(c) == (CHOOSE k \in 1..10 : Digits[k] = c) - 1

Letters == {"a", "b", "g", "m", "o", "p", "q", "t", "u", "x", "A", "T"}

IsAlnum(c) == c \in Letters \/ IsDigit(c)

Lower(c) == CASE c = "A" -> "a" [] c = "T" -> "t" [] OTHER -> c

RECURSIVE SeqsUpTo(_, _)
SeqsUpTo(S, n) ==
  IF n = 0 THEN {<<>>}
  ELSE LET shorter == SeqsUpTo(S, n - 1)
       IN shorter \cup {Append(s, c) : s \in shorter, c \in S}

(***************************************************************************)
(* mkd2term.c: the terminal renderer.                                       *)
(*                                                                          *)
(* A callback is the sequence of buffer operations it performs:             *)
(*   put   - bufput/bufputc/BUFPUTSL on the callback's own ob               *)
(*   cur   - current_buf = ob            (put_term)                         *)
(*   tputc - bufputc(current_buf, ch)    (buffer_putc, called by tputs      *)
(*           once per byte of the capability string)                        *)
(***************************************************************************)
TERM_COLOR_H1 == 2

TERM_COLOR_H2 == 3

TERM_COLOR_H3 == 1

INDENT == <<" ", " ", " ", " ">>

NEWLINE_INDENT == <<"\n">> \o INDENT

ESC == "\\E"

tigetstr(cap) == <<ESC, cap>>

tparm_setf(color) == <<ESC, "setf", Digits[color + 1]>>

OpPut(s) == [op |-> "put", s |-> s]

OpCur == [op |-> "cur", s |-> <<>>]

OpTputc(c) == [op |-> "tputc", s |-> <<c>>]

put_term(str) == <<OpCur>> \o [i \in 1..Len(str) |-> OpTputc(str[i])]

put_term_color(color) == put_term(tparm_setf(color))

\* put_term_normal that emits nothing.
put_term_normal_none == <<>>

put_term_normal == put_term(tigetstr("sgr0"))

\* One thread: current_buf is the ob the callback just stored in it.
RECURSIVE RunOps(_, _)
RunOps(buf, ops) ==
  IF ops = <<>> THEN buf
  ELSE RunOps(buf \o Head(ops).s, Tail(ops))

\* atoi: optional blanks, optional sign, then the leading decimal digits.
RECURSIVE atoi_digits(_, _, _)
atoi_digits(s, i, acc) ==
  IF IsDigit(At(s, i)) THEN atoi_digits(s, i + 1, acc * 10 + DigitVal(At(s, i)))
  ELSE acc

RECURSIVE atoi_from(_, _)
atoi_from(s, i) ==
  IF IsSpace(At(s, i)) THEN atoi_from(s, i + 1)
  ELSE IF At(s, i) = "-" THEN 0 - atoi_digits(s, i + 1, 0)
  ELSE IF At(s, i) = "+" THEN atoi_digits(s, i + 1, 0)
  ELSE atoi_digits(s, i, 0)

atoi(s) == atoi_from(s, 0)

\* The byte a char value is stored as (bufputc stores one byte).
ByteOf(n) == n % 256

Chr(n) ==
  CASE n = 0 -> NUL
    [] n = 10 -> "\n"
    [] n = 32 -> " "
    [] n = 39 -> "'"
    [] n = 42 -> "*"
    [] n = 62 -> ">"
    [] n = 65 -> "A"
    [] n = 97 -> "a"
    [] OTHER -> "\\x" \o ToString(n)

\* The C string at s: the bytes before the first NUL.
RECURSIVE CStrLen(_, _)
CStrLen(s, i) == IF i >= Len(s) \/ At(s, i) = NUL THEN i ELSE CStrLen(s, i + 1)

CStr(s) == Sub(s, 0, CStrLen(s, 0))

\* translate_entity: the byte value of the entity named s, 0 when unknown.
translate_entity(s) ==
  IF CStr(s) = <<"q", "u", "o", "t">> THEN 39
  ELSE IF CStr(s) = <<"g", "t">> THEN 62
  ELSE IF At(s, 0) = "#" THEN ByteOf(atoi(From(s, 1)))
  ELSE 0

\* get_entity: looks for ';' in str[pos+1 .. min(size, pos+20)), overwrites
\* it with NUL and translates the name before it.  Returns the byte value and
\* the buffer as the call leaves it.
RECURSIVE get_entity_scan(_, _, _, _)
get_entity_scan(str, pos, size, my_pos) ==
  IF my_pos < size /\ my_pos < pos + 20
  THEN IF At(str, my_pos) = ";"
       THEN LET str2 == Put(str, my_pos, NUL)
            IN [ent |-> translate_entity(From(str2, pos + 1)), str |-> str2]
       ELSE get_entity_scan(str, pos, size, my_pos + 1)
  ELSE [ent |-> 0, str |-> str]

get_entity(str, pos, size) == get_entity_scan(str, pos, size, pos + 1)

\* term_entity: returns the operations on ob and the text buffer afterwards.
term_entity(txt) ==
  LET g == get_entity(txt, 0, Len(txt))
  IN [ops |-> IF g.ent # 0 THEN <<OpPut(<<Chr(g.ent)>>)>> ELSE <<OpPut(g.str)>>,
      text |-> g.str]

RECURSIVE term_text_escape(_)
term_text_escape(src) ==
  IF src = <<>> THEN <<>>
  ELSE (IF Head(src) = "\n" THEN NEWLINE_INDENT ELSE <<Head(src)>>)
       \o term_text_escape(Tail(src))

FENCE == <<"~", "~", "~", "~">>

term_blockcode(txt) ==
  <<OpPut(FENCE \o NEWLINE_INDENT), OpPut(term_text_escape(txt)),
    OpPut(FENCE \o NEWLINE_INDENT)>>

term_codespan(txt) ==
  [ops |-> <<OpPut(FENCE \o NEWLINE_INDENT), OpPut(term_text_escape(txt)),
             OpPut(FENCE \o NEWLINE_INDENT)>>,
   r |-> 1]

term_header(txt, level) ==
  <<OpPut(<<"\n">>)>>
  \o (CASE level = 1 -> put_term_color(TERM_COLOR_H1)
        [] level = 2 -> put_term_color(TERM_COLOR_H2)
        [] level = 3 -> <<OpPut(<<" ", " ">>)>> \o put_term_color(TERM_COLOR_H3)
        [] OTHER -> <<>>)
  \o put_term(tigetstr("smul"))
  \o put_term(tigetstr("bold"))
  \o <<OpPut(txt)>>
  \o put_term_normal
  \o <<OpPut(NEWLINE_INDENT)>>

term_double_emphasis(txt, c) ==
  IF Len(txt) = 0 THEN [ops |-> <<>>, r |-> 0]
  ELSE [ops |-> put_term(tigetstr("bold")) \o put_term(tigetstr("smul"))
                \o <<OpPut(txt)>> \o put_term_normal,
        r |-> 1]

term_emphasis(txt, c) ==
  IF Len(txt) = 0 THEN [ops |-> <<>>, r |-> 0]
  ELSE [ops |-> put_term(tigetstr("bold")) \o <<OpPut(txt)>> \o put_term_normal,
        r |-> 1]

term_linebreak == [ops |-> <<OpPut(NEWLINE_INDENT)>>, r |-> 1]

term_paragraph(obsize, txt) ==
  (IF obsize # 0 THEN <<OpPut(NEWLINE_INDENT)>> ELSE <<>>)
  \o <<OpPut(txt), OpPut(NEWLINE_INDENT)>>

term_normal_text(txt) == <<OpPut(term_text_escape(txt))>>

\* The hook table of mkd2term.c; "NULL" is the null pointer.
to_man ==
  [prolog |-> "NULL", epilog |-> "NULL",
   blockcode |-> "term_blockcode", blockquote |-> "NULL", blockhtml |-> "NULL",
   header |-> "term_header", hrule |-> "NULL", list |-> "term_list",
   listitem |-> "term_listitem", paragraph |-> "term_paragraph",
   table |-> "NULL", table_cell |-> "NULL", table_row |-> "NULL",
   autolink |-> "NULL", codespan |-> "term_codespan",
   double_emphasis |-> "term_double_emphasis", emphasis |-> "term_emphasis",
   image |-> "NULL", linebreak |-> "term_linebreak", link |-> "NULL",
   raw_html_tag |-> "NULL", triple_emphasis |-> "NULL",
   entity |-> "term_entity", normal_text |-> "term_normal_text",
   max_work_stack |-> 64, emph_chars |-> {"*", "_"}]

(***************************************************************************)
(* Hook tables other than to_man.  The "ev_" callbacks render a construct   *)
(* as its arguments between two tag bytes, so that the output shows every   *)
(* hook invocation and its arguments; they return 1.  "nat_emphasis" is the *)
(* declining callback of the README: it returns 0 when called with '+' or   *)
(* '-' and renders like ev_emphasis otherwise.                              *)
(***************************************************************************)
Tagged(tag, txt) == <<OpPut(<<"<" \o tag \o ">">>), OpPut(txt), OpPut(<<"</" \o tag \o ">">>)>>

nat_emphasis(txt, c) ==
  IF c = "+" \/ c = "-" THEN [ops |-> <<>>, r |-> 0]
  ELSE [ops |-> Tagged("em", txt), r |-> 1]

ev_table ==
  [to_man EXCEPT
     !.blockquote = "ev_blockquote", !.header = "ev_header", !.hrule = "ev_hrule",
     !.paragraph = "ev_paragraph", !.codespan = "ev_codespan",
     !.double_emphasis = "ev_double_emphasis", !.emphasis = "ev_emphasis",
     !.triple_emphasis = "ev_triple_emphasis", !.linebreak = "ev_linebreak",
     !.link = "ev_link", !.entity = "NULL", !.normal_text = "NULL"]

nat_table ==
  [ev_table EXCEPT !.emphasis = "nat_emphasis", !.emph_chars = {"*", "_", "+"}]

\* The tagging renderer with the three callbacks of the table extension.
tab_table ==
  [ev_table EXCEPT !.table = "ev_table", !.table_row = "ev_table_row",
                   !.table_cell = "ev_table_cell"]

\* The renderer of literal passthrough: every block-level callback copies
\* the text it is given, the span-level and low-level callbacks are null.
pass_table ==
  [prolog |-> "NULL", epilog |-> "NULL",
   blockcode |-> "copy_text", blockquote |-> "copy_text", blockhtml |-> "copy_text",
   header |-> "copy_text", hrule |-> "copy_text", list |-> "copy_text",
   listitem |-> "copy_text", paragraph |-> "copy_text",
   table |-> "copy_text", table_cell |-> "copy_text", table_row |-> "copy_text",
   autolink |-> "NULL", codespan |-> "NULL",
   double_emphasis |-> "NULL", emphasis |-> "NULL",
   image |-> "NULL", linebreak |-> "NULL", link |-> "NULL",
   raw_html_tag |-> "NULL", triple_emphasis |-> "NULL",
   entity |-> "NULL", normal_text |-> "NULL",
   max_work_stack |-> 64, emph_chars |-> {"*", "_"}]

\* The flag of the cells and of the row of a table's header.
MKD_CELL_HEAD == 4

(***************************************************************************)
(* Calls through the hook table.  A block-level or low-level call returns   *)
(* the ob it leaves; a span-level call also returns the callback's result.  *)
(***************************************************************************)
\* call_normal_text that takes a null callback as the terminal renderer's.
call_normal_text_escaped(h, buf, txt) == RunOps(buf, term_normal_text(txt))

call_normal_text(h, buf, txt) ==
  IF h = "NULL" THEN buf \o txt
  ELSE RunOps(buf, term_normal_text(txt))

call_entity(h, buf, txt) ==
  IF h = "NULL" THEN [ob |-> buf \o txt, text |-> txt]
  ELSE LET t == term_entity(txt) IN [ob |-> RunOps(buf, t.ops), text |-> t.text]

span_ops(h, txt, c) ==
  CASE h = "term_emphasis" -> term_emphasis(txt, c)
    [] h = "term_double_emphasis" -> term_double_emphasis(txt, c)
    [] h = "term_codespan" -> term_codespan(txt)
    [] h = "term_linebreak" -> term_linebreak
    [] h = "nat_emphasis" -> nat_emphasis(txt, c)
    [] h = "ev_emphasis" -> [ops |-> Tagged("em", txt), r |-> 1]
    [] h = "ev_double_emphasis" -> [ops |-> Tagged("strong", txt), r |-> 1]
    [] h = "ev_triple_emphasis" -> [ops |-> Tagged("strong-em", txt), r |-> 1]
    [] h = "ev_codespan" -> [ops |-> Tagged("code", txt), r |-> 1]
    [] h = "ev_linebreak" -> [ops |-> Tagged("br", <<>>), r |-> 1]

call_span(h, buf, txt, c) ==
  LET s == span_ops(h, txt, c) IN [ob |-> RunOps(buf, s.ops), r |-> s.r]

call_link(h, buf, link, title, content) ==
  [ob |-> RunOps(buf, Tagged("a", link \o <<"|">> \o title \o <<"|">> \o content)),
   r |-> 1]

block_ops(h, obsize, txt, level) ==
  CASE h = "term_header" -> term_header(txt, level)
    [] h = "term_paragraph" -> term_paragraph(obsize, txt)
    [] h = "term_blockcode" -> term_blockcode(txt)
    [] h = "ev_header" -> Tagged("h" \o Digits[level + 1], txt)
    [] h = "ev_paragraph" -> Tagged("p", txt)
    [] h = "ev_blockquote" -> Tagged("blockquote", txt)
    [] h = "ev_hrule" -> Tagged("hr", <<>>)
    [] h = "copy_text" -> <<OpPut(txt)>>
    [] h = "ev_table" -> Tagged("table", txt)
    [] h = "ev_table_row" -> Tagged("tr", txt)
    [] h = "ev_table_cell" -> Tagged(IF level = MKD_CELL_HEAD THEN "th" ELSE "td", txt)

\* call_block that takes a null block-level callback as a null span-level
\* one is taken: the text is copied to the output.
call_block_verbatim(h, buf, txt, level) ==
  IF h = "NULL" THEN buf \o txt
  ELSE RunOps(buf, block_ops(h, Len(buf), txt, level))

call_block(h, buf, txt, level) ==
  IF h = "NULL" THEN buf
  ELSE RunOps(buf, block_ops(h, Len(buf), txt, level))

(***************************************************************************)
(* The parser's state threaded through its functions: the output buffer the *)
(* function appends to (ob), the work-buffer pool (wk: size buffers in use  *)
(* out of asize allocated), and the instrumentation trace (tr).             *)
(***************************************************************************)
\* An event of the trace: e is "enter" or "exit" (of parse_block or
\* parse_inline, with the data it was called on), "hook" (a callback was
\* called with d; for an emphasis callback d starts with the delimiter) or
\* "block" (a block of d bytes was parsed); ws is the number of work buffers
\* in use, out the bytes the call appended to its ob, r a callback's result.
Ev(st, e, fn, d, out, r) ==
  [st EXCEPT !.tr = Append(@, [e |-> e, fn |-> fn, ws |-> st.wk.size, d |-> d,
                               out |-> out, r |-> r])]

\* new_work_buffer: the state of the code that fills the new (empty) buffer.
\* new_work_buffer that hands out a buffer without counting it as in use.
new_work_buffer_uncounted(st) == [ob |-> <<>>, wk |-> st.wk, tr |-> st.tr]

new_work_buffer(st) ==
  [ob |-> <<>>,
   wk |-> [size |-> st.wk.size + 1,
           asize |-> IF st.wk.size = st.wk.asize THEN st.wk.asize + 1 ELSE st.wk.asize],
   tr |-> st.tr]

\* release_work_buffer that leaves the buffer marked as in use.
release_work_buffer_leak(wk) == wk

release_work_buffer(wk) == [wk EXCEPT !.size = @ - 1]

(***************************************************************************)
(* Link references (pass 1).                                                *)
(***************************************************************************)
RECURSIVE skip_blanks(_, _, _)
skip_blanks(data, i, end) ==
  IF i < end /\ IsBlank(At(data, i)) THEN skip_blanks(data, i + 1, end) ELSE i

RECURSIVE skip_to_eol(_, _, _)
skip_to_eol(data, i, end) ==
  IF i < end /\ At(data, i) # "\n" /\ At(data, i) # "\r"
  THEN skip_to_eol(data, i + 1, end) ELSE i

RECURSIVE skip_id(_, _, _)
skip_id(data, i, end) ==
  IF i < end /\ At(data, i) # "\n" /\ At(data, i) # "\r" /\ At(data, i) # "]"
  THEN skip_id(data, i + 1, end) ELSE i

RECURSIVE skip_link(_, _, _)
skip_link(data, i, end) ==
  IF i < end /\ ~IsBlank(At(data, i)) /\ At(data, i) # "\n" /\ At(data, i) # "\r"
     /\ At(data, i) # ">"
  THEN skip_link(data, i + 1, end) ELSE i

RECURSIVE back_blanks(_, _, _)
back_blanks(data, i, lo) ==
  IF i > lo /\ IsBlank(At(data, i)) THEN back_blanks(data, i - 1, lo) ELSE i

IsTitleOpen(c) == c = "'" \/ c = "\"" \/ c = "("

IsTitleClose(c) == c = "'" \/ c = "\"" \/ c = ")"

\* Identifiers are compared without case and with runs of blanks as one blank.
RECURSIVE NormId(_)
NormId(id) ==
  IF id = <<>> THEN <<>>
  ELSE IF Len(id) > 1 /\ IsBlank(id[1]) /\ IsBlank(id[2]) THEN NormId(Tail(id))
  ELSE <<Lower(Head(id))>> \o NormId(Tail(id))

NoRef == [ok |-> FALSE, last |-> 0, id |-> <<>>, link |-> <<>>, title |-> <<>>]

\* is_ref: whether the line at b0 is a reference definition
\*   [id]: <url> "title"      (up to three leading blanks, the title optional
\* and possibly on the following line).  On success last is the offset of the
\* end of the definition's last line (of its newline, or of the end of input).
is_ref(data, b0, end) ==
  LET lead == IF At(data, b0) # " " THEN 0
              ELSE IF At(data, b0 + 1) # " " THEN 1
              ELSE IF At(data, b0 + 2) # " " THEN 2
              ELSE 3
      i0 == b0 + lead
      id_offset == i0 + 1
      id_end == skip_id(data, id_offset, end)
      i1 == skip_blanks(data, id_end + 2, end)
      angle == i1 < end /\ At(data, i1) = "<"
      link_offset == IF angle THEN i1 + 1 ELSE i1
      link_end == skip_link(data, link_offset, end)
      i2 == IF link_end < end /\ At(data, link_end) = ">" THEN link_end + 1 ELSE link_end
      i3 == skip_blanks(data, i2, end)
      at_eol == i3 >= end \/ At(data, i3) = "\n" \/ At(data, i3) = "\r"
      line_end0 == IF at_eol THEN i3 ELSE 0
      t0 == IF at_eol THEN skip_blanks(data, line_end0 + 1, end) ELSE i3
      has_open == t0 + 1 < end /\ IsTitleOpen(At(data, t0))
      title_offset == t0 + 1
      title_eol == skip_to_eol(data, title_offset, end)
      tclose == back_blanks(data, title_eol - 1, title_offset)
      has_title == has_open /\ tclose > title_offset /\ IsTitleClose(At(data, tclose))
      line_end == IF has_title THEN title_eol ELSE line_end0
  IN IF b0 + 3 >= end THEN NoRef
     ELSE IF lead = 3 /\ At(data, b0 + 3) = " " THEN NoRef
     ELSE IF At(data, i0) # "[" THEN NoRef
     ELSE IF id_end >= end \/ At(data, id_end) # "]" THEN NoRef
     ELSE IF id_end + 1 >= end \/ At(data, id_end + 1) # ":" THEN NoRef
     ELSE IF i1 >= end THEN NoRef
     ELSE IF link_end = link_offset THEN NoRef
     ELSE IF ~at_eol /\ ~IsTitleOpen(At(data, i3)) THEN NoRef
     ELSE IF ~at_eol /\ ~has_title THEN NoRef
     ELSE [ok |-> TRUE, last |-> line_end,
           id |-> Sub(data, id_offset, id_end),
           link |-> Sub(data, link_offset, link_end),
           title |-> IF has_title THEN Sub(data, title_offset, tclose) ELSE <<>>]

\* The table is sorted by identifier; CharRank is the order of the bytes.
CharOrder == <<"\t", "\n", " ", "\"", "#", "&", "'", "(", ")", "*", "+", "0", "1",
               "2", "3", "4", "5", "6", "7", "8", "9", ":", ";", ">", "A", "T",
               "[", "]", "_", BACKTICK, "a", "b", "g", "m", "o", "p", "q", "t", "u", "x", "~">>

CharRank(c) ==
  IF \E k \in 1..Len(CharOrder) : CharOrder[k] = c
  THEN CHOOSE k \in 1..Len(CharOrder) : CharOrder[k] = c
  ELSE 0

RECURSIVE IdLess(_, _)
IdLess(a, b) ==
  IF b = <<>> THEN FALSE
  ELSE IF a = <<>> THEN TRUE
  ELSE IF CharRank(Head(a)) # CharRank(Head(b)) THEN CharRank(Head(a)) < CharRank(Head(b))
  ELSE IdLess(Tail(a), Tail(b))

\* Insertion of a reference: after the entries that are not greater, so that
\* among equal identifiers the first definition of the document comes first.
RECURSIVE ref_insert(_, _)
ref_insert(table, lr) ==
  IF table = <<>> THEN <<lr>>
  ELSE IF IdLess(NormId(lr.id), NormId(Head(table).id)) THEN <<lr>> \o table
  ELSE <<Head(table)>> \o ref_insert(Tail(table), lr)

\* Lookup: the first entry of the table with the identifier.
RECURSIVE find_ref(_, _)
find_ref(table, id) ==
  IF table = <<>> THEN [found |-> FALSE, link |-> <<>>, title |-> <<>>]
  ELSE IF NormId(Head(table).id) = NormId(id)
       THEN [found |-> TRUE, link |-> Head(table).link, title |-> Head(table).title]
       ELSE find_ref(Tail(table), id)

\* One iteration of the loop over the lines of the input (pass 1): at beg,
\* either a reference definition, stored and skipped, or a line, copied to
\* the text with each of its newlines as one '\n'.
RECURSIVE copy_newlines(_, _, _)
copy_newlines(data, end, out) ==
  IF end < Len(data) /\ (At(data, end) = "\n" \/ At(data, end) = "\r")
  THEN copy_newlines(data, end + 1,
         IF At(data, end) = "\n" \/ (end + 1 < Len(data) /\ At(data, end + 1) # "\n")
         THEN Append(out, "\n") ELSE out)
  ELSE [end |-> end, out |-> out]

\* first_pass_line that takes a reference definition out only while the
\* text is empty: a definition after a line of text stays in the text.
first_pass_line_before_text(data, b, txt, table) ==
  LET line(r) ==
        IF r.ok /\ txt = <<>>
        THEN [beg |-> r.last, text |-> txt,
              refs |-> ref_insert(table, [id |-> r.id, link |-> r.link, title |-> r.title])]
        ELSE LET eol == skip_to_eol(data, b, Len(data))
                 nl == copy_newlines(data, eol, txt \o Sub(data, b, eol))
             IN [beg |-> nl.end, text |-> nl.out, refs |-> table]
  IN line(is_ref(data, b, Len(data)))

\* first_pass_line that stores a reference definition and keeps its first
\* line in the text as well.
first_pass_line_keep(data, b, txt, table) ==
  LET eol == skip_to_eol(data, b, Len(data))
      nl == copy_newlines(data, eol, txt \o Sub(data, b, eol))
      line(r) ==
        [beg |-> IF r.ok /\ r.last > nl.end THEN r.last ELSE nl.end,
         text |-> nl.out,
         refs |-> IF r.ok
                  THEN ref_insert(table, [id |-> r.id, link |-> r.link, title |-> r.title])
                  ELSE table]
  IN line(is_ref(data, b, Len(data)))

first_pass_line(data, b, txt, table) ==
  LET line(r) ==
        IF r.ok
        THEN [beg |-> r.last, text |-> txt,
              refs |-> ref_insert(table, [id |-> r.id, link |-> r.link, title |-> r.title])]
        ELSE LET eol == skip_to_eol(data, b, Len(data))
                 nl == copy_newlines(data, eol, txt \o Sub(data, b, eol))
             IN [beg |-> nl.end, text |-> nl.out, refs |-> table]
  IN line(is_ref(data, b, Len(data)))

\* The text ends with a newline when it is not empty.
final_newline(txt) ==
  IF txt # <<>> /\ txt[Len(txt)] # "\n" /\ txt[Len(txt)] # "\r" THEN Append(txt, "\n")
  ELSE txt

RECURSIVE first_pass(_, _, _, _)
first_pass(data, b, txt, table) ==
  IF b < Len(data)
  THEN LET rest(s) == first_pass(data, s.beg, s.text, s.refs)
       IN rest(first_pass_line(data, b, txt, table))
  ELSE [text |-> final_newline(txt), refs |-> table]

(***************************************************************************)
(* Span-level parsing.  A matcher is called at offset i of the data of the  *)
(* running parse_inline; it returns the state it leaves, the                *)
(* number of bytes it consumed (0: declined) and the data, which a callback *)
(* may have written to.                                                     *)
(***************************************************************************)
RECURSIVE parse_inline(_, _, _), parse_block(_, _, _)

Res(st, n, data) == [st |-> st, n |-> n, data |-> data]

\* active_char[] in which '*' is the only emphasis character.
active_char_star(r, c) ==
  IF c = "*"
     /\ (r.emphasis # "NULL" \/ r.double_emphasis # "NULL" \/ r.triple_emphasis # "NULL")
  THEN "char_emphasis"
  ELSE IF c = BACKTICK /\ r.codespan # "NULL" THEN "char_codespan"
  ELSE IF c = "\n" /\ r.linebreak # "NULL" THEN "char_linebreak"
  ELSE IF c = "[" /\ (r.image # "NULL" \/ r.link # "NULL") THEN "char_link"
  ELSE IF c = "&" THEN "char_entity"
  ELSE "NULL"

\* active_char[]: the matcher of a byte, set up from the non-null callbacks.
active_char(r, c) ==
  IF c \in r.emph_chars
     /\ (r.emphasis # "NULL" \/ r.double_emphasis # "NULL" \/ r.triple_emphasis # "NULL")
  THEN "char_emphasis"
  ELSE IF c = BACKTICK /\ r.codespan # "NULL" THEN "char_codespan"
  ELSE IF c = "\n" /\ r.linebreak # "NULL" THEN "char_linebreak"
  ELSE IF c = "[" /\ (r.image # "NULL" \/ r.link # "NULL") THEN "char_link"
  ELSE IF c = "&" THEN "char_entity"
  ELSE "NULL"

\* find_emph_char: the offset (from 1) of the next c in data that is not
\* inside a code span, 0 when there is none.
RECURSIVE find_in_span(_, _, _, _)
find_in_span(data, i, c, tmp_i) ==
  IF i < Len(data) /\ At(data, i) # BACKTICK
  THEN find_in_span(data, i + 1, c, IF tmp_i = 0 /\ At(data, i) = c THEN i ELSE tmp_i)
  ELSE [i |-> i, tmp_i |-> tmp_i]

RECURSIVE find_emph_from(_, _, _)
find_emph_from(data, i, c) ==
  IF i >= Len(data) THEN 0
  ELSE IF At(data, i) = c THEN i
  ELSE IF At(data, i) = BACKTICK
       THEN LET f == find_in_span(data, i + 1, c, 0)
            IN IF f.i >= Len(data) THEN f.tmp_i
               ELSE find_emph_from(data, f.i + 1, c)
  ELSE find_emph_from(data, i + 1, c)

find_emph_char(data, c) == find_emph_from(data, 1, c)

\* The common end of parse_emph1/2/3: the text data[base, base + i) is
\* parsed into a new work buffer, handed to the callback and the buffer is
\* released; the span is consumed when the callback returns non-zero.
emph_render(st, cfg, data, base, i, hook, name, c, closing) ==
  LET returned(inner, h) ==
        LET called == Ev(inner.st, "hook", name, <<c>> \o inner.st.ob,
                         From(h.ob, Len(st.ob)), h.r)
        IN Res([ob |-> h.ob, wk |-> release_work_buffer(called.wk), tr |-> called.tr],
               IF h.r # 0 THEN i + closing ELSE 0,
               Sub(data, 0, base) \o inner.data \o From(data, base + i))
      parsed(inner) == returned(inner, call_span(hook, st.ob, inner.st.ob, c))
  IN parsed(parse_inline(new_work_buffer(st), cfg, Sub(data, base, base + i)))

\* parse_emph1: single emphasis; the text starts at data[base].
RECURSIVE emph1_loop(_, _, _, _, _, _)
emph1_loop(st, cfg, data, base, c, i0) ==
  LET size == Len(data) - base
      len == find_emph_char(From(data, base + i0), c)
      i == i0 + len
  IN IF i0 >= size \/ len = 0 \/ i >= size THEN Res(st, 0, data)
     ELSE IF i + 1 < size /\ At(data, base + i + 1) = c
          THEN emph1_loop(st, cfg, data, base, c, i + 1)
     ELSE IF At(data, base + i) = c /\ ~IsSpace(At(data, base + i - 1))
          THEN emph_render(st, cfg, data, base, i, cfg.rndr.emphasis, "emphasis", c, 1)
     ELSE emph1_loop(st, cfg, data, base, c, i)

parse_emph1(st, cfg, data, base, c) ==
  IF cfg.rndr.emphasis = "NULL" THEN Res(st, 0, data)
  ELSE emph1_loop(st, cfg, data, base, c,
         IF Len(data) - base > 1 /\ At(data, base) = c /\ At(data, base + 1) = c
         THEN 1 ELSE 0)

\* parse_emph2: double emphasis.
RECURSIVE emph2_loop(_, _, _, _, _, _)
emph2_loop(st, cfg, data, base, c, i0) ==
  LET size == Len(data) - base
      len == find_emph_char(From(data, base + i0), c)
      i == i0 + len
  IN IF i0 >= size \/ len = 0 THEN Res(st, 0, data)
     ELSE IF i + 1 < size /\ At(data, base + i) = c /\ At(data, base + i + 1) = c
             /\ i # 0 /\ ~IsSpace(At(data, base + i - 1))
          THEN emph_render(st, cfg, data, base, i, cfg.rndr.double_emphasis,
                           "double_emphasis", c, 2)
     ELSE emph2_loop(st, cfg, data, base, c, i + 1)

parse_emph2(st, cfg, data, base, c) ==
  IF cfg.rndr.double_emphasis = "NULL" THEN Res(st, 0, data)
  ELSE emph2_loop(st, cfg, data, base, c, 0)

\* parse_emph3: triple emphasis, or a single one around a double one (and
\* the converse) when the closing run is shorter.
RECURSIVE emph3_loop(_, _, _, _, _, _)
emph3_loop(st, cfg, data, base, c, i0) ==
  LET size == Len(data) - base
      len == find_emph_char(From(data, base + i0), c)
      i == i0 + len
      less(r, k) == IF r.n = 0 THEN r ELSE Res(r.st, r.n - k, r.data)
  IN IF i0 >= size \/ len = 0 THEN Res(st, 0, data)
     ELSE IF At(data, base + i) # c \/ IsSpace(At(data, base + i - 1))
          THEN emph3_loop(st, cfg, data, base, c, i)
     ELSE IF i + 2 < size /\ At(data, base + i + 1) = c /\ At(data, base + i + 2) = c
             /\ cfg.rndr.triple_emphasis # "NULL"
          THEN emph_render(st, cfg, data, base, i, cfg.rndr.triple_emphasis,
                           "triple_emphasis", c, 3)
     ELSE IF i + 1 < size /\ At(data, base + i + 1) = c
          THEN less(parse_emph1(st, cfg, data, base - 2, c), 2)
     ELSE less(parse_emph2(st, cfg, data, base - 1, c), 1)

parse_emph3(st, cfg, data, base, c) == emph3_loop(st, cfg, data, base, c, 0)

\* char_emphasis: one, two or three delimiters at data[i], not followed by
\* white space.
char_emphasis(st, cfg, data, i) ==
  LET size == Len(data) - i
      c == At(data, i)
      d(k) == At(data, i + k)
      add(r, k) == IF r.n = 0 THEN r ELSE Res(r.st, r.n + k, r.data)
  IN IF size > 2 /\ d(1) # c
     THEN IF IsSpace(d(1)) THEN Res(st, 0, data)
          ELSE add(parse_emph1(st, cfg, data, i + 1, c), 1)
     ELSE IF size > 3 /\ d(1) = c /\ d(2) # c
     THEN IF IsSpace(d(2)) THEN Res(st, 0, data)
          ELSE add(parse_emph2(st, cfg, data, i + 2, c), 2)
     ELSE IF size > 4 /\ d(1) = c /\ d(2) = c /\ d(3) # c
     THEN IF IsSpace(d(3)) THEN Res(st, 0, data)
          ELSE add(parse_emph3(st, cfg, data, i + 3, c), 3)
     ELSE Res(st, 0, data)

\* char_codespan: a run of nb backticks, closed by the next run of nb
\* backticks; the text between them, without the outer blanks, goes to the
\* callback unparsed.
RECURSIVE count_ticks(_, _)
count_ticks(data, k) ==
  IF k < Len(data) /\ At(data, k) = BACKTICK THEN count_ticks(data, k + 1) ELSE k

RECURSIVE span_end(_, _, _, _)
span_end(data, end, k, nb) ==
  IF end < Len(data) /\ k < nb
  THEN span_end(data, end + 1, IF At(data, end) = BACKTICK THEN k + 1 ELSE 0, nb)
  ELSE [end |-> end, k |-> k]

RECURSIVE trim_right(_, _, _)
trim_right(data, e, lo) ==
  IF e > lo /\ IsBlank(At(data, e - 1)) THEN trim_right(data, e - 1, lo) ELSE e

\* char_codespan that parses the text between the delimiters as a span
\* before it hands it to the callback.
char_codespan_parsed(st, cfg, data, i) ==
  LET d == From(data, i)
      nb == count_ticks(d, 0)
      se == span_end(d, nb, 0, nb)
      f_begin == skip_blanks(d, nb, se.end)
      f_end == trim_right(d, se.end - nb, nb)
      returned(inner, h) ==
        Res([Ev(inner.st, "hook", "codespan", inner.st.ob, From(h.ob, Len(st.ob)), h.r)
               EXCEPT !.ob = h.ob, !.wk = release_work_buffer(inner.st.wk)],
            IF h.r # 0 THEN se.end ELSE 0, data)
      called(inner) == returned(inner, call_span(cfg.rndr.codespan, st.ob, inner.st.ob, NUL))
  IN IF se.k < nb /\ se.end >= Len(d) THEN Res(st, 0, data)
     ELSE called(parse_inline(new_work_buffer(st), cfg,
                              IF f_begin < f_end THEN Sub(d, f_begin, f_end) ELSE <<>>))

char_codespan(st, cfg, data, i) ==
  LET d == From(data, i)
      nb == count_ticks(d, 0)
      se == span_end(d, nb, 0, nb)
      f_begin == skip_blanks(d, nb, se.end)
      f_end == trim_right(d, se.end - nb, nb)
      returned(txt, h) ==
        Res([Ev(st, "hook", "codespan", txt, From(h.ob, Len(st.ob)), h.r)
               EXCEPT !.ob = h.ob],
            IF h.r # 0 THEN se.end ELSE 0, data)
      called(txt) == returned(txt, call_span(cfg.rndr.codespan, st.ob, txt, NUL))
  IN IF se.k < nb /\ se.end >= Len(d) THEN Res(st, 0, data)
     ELSE called(IF f_begin < f_end THEN Sub(d, f_begin, f_end) ELSE <<>>)

\* char_linebreak: a newline after two blanks; the last blank is taken back
\* from ob.
char_linebreak(st, cfg, data, i) ==
  IF i < 2 \/ At(data, i - 1) # " " \/ At(data, i - 2) # " " THEN Res(st, 0, data)
  ELSE LET cut == IF st.ob # <<>> /\ st.ob[Len(st.ob)] = " "
                  THEN Sub(st.ob, 0, Len(st.ob) - 1) ELSE st.ob
           returned(h) ==
             Res([Ev(st, "hook", "linebreak", <<>>, From(h.ob, Len(cut)), h.r)
                    EXCEPT !.ob = h.ob],
                 IF h.r # 0 THEN 1 ELSE 0, data)
       IN returned(call_span(cfg.rndr.linebreak, cut, <<>>, NUL))

\* char_entity: '&', an optional '#', alphanumerics and ';'.
RECURSIVE skip_alnum(_, _)
skip_alnum(data, k) ==
  IF k < Len(data) /\ IsAlnum(At(data, k)) THEN skip_alnum(data, k + 1) ELSE k

char_entity(st, cfg, data, i) ==
  LET d == From(data, i)
      e0 == IF 1 < Len(d) /\ At(d, 1) = "#" THEN 2 ELSE 1
      e1 == skip_alnum(d, e0)
      end == e1 + 1
      returned(h) ==
        LET called == IF cfg.rndr.entity = "NULL" THEN st
                      ELSE Ev(st, "hook", "entity", Sub(d, 0, end),
                              From(h.ob, Len(st.ob)), 1)
        IN Res([called EXCEPT !.ob = h.ob], end,
               Sub(data, 0, i) \o h.text \o From(data, i + end))
  IN IF e1 < Len(d) /\ At(d, e1) = ";"
     THEN returned(call_entity(cfg.rndr.entity, st.ob, Sub(d, 0, end)))
     ELSE Res(st, 0, data)

\* char_link: '[text][id]', '[text][]' and '[text]', the identifier looked
\* up in the reference table; three work buffers (content, link, title) are
\* taken and released.
RECURSIVE close_bracket(_, _, _)
close_bracket(data, k, level) ==
  IF k >= Len(data) THEN k
  ELSE IF At(data, k) = "[" THEN close_bracket(data, k + 1, level + 1)
  ELSE IF At(data, k) = "]"
       THEN IF level - 1 <= 0 THEN k ELSE close_bracket(data, k + 1, level - 1)
  ELSE close_bracket(data, k + 1, level)

RECURSIVE skip_spaces(_, _)
skip_spaces(data, k) ==
  IF k < Len(data) /\ IsSpace(At(data, k)) THEN skip_spaces(data, k + 1) ELSE k

char_link(st, cfg, data, i) ==
  LET d == From(data, i)
      txt_e == close_bracket(d, 1, 1)
      j == skip_spaces(d, txt_e + 1)
      explicit == j < Len(d) /\ At(d, j) = "["
      id_e == close_bracket(d, j + 1, 1)
      id == IF explicit /\ id_e > j + 1 THEN Sub(d, j + 1, id_e) ELSE Sub(d, 1, txt_e)
      end == IF explicit THEN id_e + 1 ELSE txt_e + 1
      w3 == new_work_buffer(new_work_buffer(new_work_buffer(st)))
      rel(wk) == release_work_buffer(release_work_buffer(release_work_buffer(wk)))
      returned(lr, inner, h) ==
        LET called == Ev(inner.st, "hook", "link", lr.link \o <<"|">> \o inner.st.ob,
                         From(h.ob, Len(st.ob)), h.r)
        IN Res([ob |-> h.ob, wk |-> rel(called.wk), tr |-> called.tr],
               IF h.r # 0 THEN end ELSE 0,
               Sub(data, 0, i + 1) \o inner.data \o From(data, i + txt_e))
      parsed(lr, inner) ==
        returned(lr, inner,
                 call_link(cfg.rndr.link, st.ob, lr.link, lr.title, inner.st.ob))
      found(lr) ==
        IF ~lr.found THEN Res(st, 0, data)
        ELSE parsed(lr, IF txt_e > 1 THEN parse_inline(w3, cfg, Sub(d, 1, txt_e))
                        ELSE [st |-> w3, data |-> <<>>])
  IN IF cfg.rndr.link = "NULL" THEN Res(st, 0, data)
     ELSE IF txt_e >= Len(d) THEN Res(st, 0, data)
     ELSE IF explicit /\ id_e >= Len(d) THEN Res(st, 0, data)
     ELSE found(find_ref(cfg.refs, id))

action(st, cfg, data, i) ==
  LET a == active_char(cfg.rndr, At(data, i))
  IN CASE a = "char_emphasis" -> char_emphasis(st, cfg, data, i)
       [] a = "char_codespan" -> char_codespan(st, cfg, data, i)
       [] a = "char_linebreak" -> char_linebreak(st, cfg, data, i)
       [] a = "char_link" -> char_link(st, cfg, data, i)
       [] a = "char_entity" -> char_entity(st, cfg, data, i)

\* The loop of parse_inline: the run of inactive bytes from i goes to the
\* normal_text callback, then the matcher of the active byte is called; when
\* it declines, the byte starts the next run of normal text.
RECURSIVE scan_inactive(_, _, _)
scan_inactive(r, data, end) ==
  IF end < Len(data) /\ active_char(r, At(data, end)) = "NULL"
  THEN scan_inactive(r, data, end + 1) ELSE end

RECURSIVE inline_loop(_, _, _, _, _)

\* inline_loop that goes on after the active byte when its matcher declines:
\* the byte is in no run of normal text.
inline_loop_skip(st, cfg, data, i, end0) ==
  IF i >= Len(data) THEN [st |-> st, data |-> data]
  ELSE LET end == scan_inactive(cfg.rndr, data, end0)
           st1 == [st EXCEPT !.ob = call_normal_text(cfg.rndr.normal_text, @,
                                                     Sub(data, i, end))]
       IN IF end >= Len(data) THEN [st |-> st1, data |-> data]
          ELSE LET next(a) ==
                     IF a.n = 0 THEN inline_loop(a.st, cfg, a.data, end + 1, end + 1)
                     ELSE inline_loop(a.st, cfg, a.data, end + a.n, end + a.n)
               IN next(action(st1, cfg, data, end))

inline_loop(st, cfg, data, i, end0) ==
  IF i >= Len(data) THEN [st |-> st, data |-> data]
  ELSE LET end == scan_inactive(cfg.rndr, data, end0)
           st1 == [st EXCEPT !.ob = call_normal_text(cfg.rndr.normal_text, @,
                                                     Sub(data, i, end))]
       IN IF end >= Len(data) THEN [st |-> st1, data |-> data]
          ELSE LET next(a) ==
                     IF a.n = 0 THEN inline_loop(a.st, cfg, a.data, end, end + 1)
                     ELSE inline_loop(a.st, cfg, a.data, end + a.n, end + a.n)
               IN next(action(st1, cfg, data, end))

\* parse_inline without the check of the number of work buffers in use.
parse_inline_unguarded(st, cfg, data) ==
  LET entered == Ev(st, "enter", "parse_inline", data, <<>>, 0)
      returned(r) ==
        [st |-> Ev(r.st, "exit", "parse_inline", data, From(r.st.ob, Len(st.ob)), 0),
         data |-> r.data]
  IN returned(inline_loop(entered, cfg, data, 0, 0))

\* parse_inline: above the ceiling the input is appended as it is.
parse_inline(st, cfg, data) ==
  LET entered == Ev(st, "enter", "parse_inline", data, <<>>, 0)
      returned(r) ==
        [st |-> Ev(r.st, "exit", "parse_inline", data, From(r.st.ob, Len(st.ob)), 0),
         data |-> r.data]
  IN returned(IF st.wk.size > cfg.rndr.max_work_stack
              THEN [st |-> [entered EXCEPT !.ob = @ \o data], data |-> data]
              ELSE inline_loop(entered, cfg, data, 0, 0))

(***************************************************************************)
(* Block-level parsing.  A block function is called at offset b of the data *)
(* of the running parse_block and returns the number of bytes of its block. *)
(***************************************************************************)
RECURSIVE line_end(_, _)
line_end(data, i) ==
  IF i < Len(data) /\ At(data, i) # "\n" THEN line_end(data, i + 1) ELSE i

\* End of the line at i, its newline included.
next_line(data, i) ==
  LET e == line_end(data, i) IN IF e < Len(data) THEN e + 1 ELSE e

\* is_empty: 0, or the length of the blank line at b with its newline.
is_empty(data, b) ==
  LET e == line_end(data, b)
  IN IF \A k \in b..(e - 1) : IsBlank(At(data, k)) THEN e - b + 1 ELSE 0

\* is_hrule: at least three '*', '-' or '_' and only blanks between them.
is_hrule(data, b) ==
  LET size == Len(data) - b
      i == IF At(data, b) # " " THEN 0
           ELSE IF At(data, b + 1) # " " THEN 1
           ELSE IF At(data, b + 2) # " " THEN 2 ELSE 3
      c == At(data, b + i)
      e == line_end(data, b)
  IN /\ size >= 3
     /\ i + 2 < size
     /\ c \in {"*", "-", "_"}
     /\ \A k \in (b + i)..(e - 1) : At(data, k) = c \/ IsBlank(At(data, k))
     /\ Cardinality({k \in (b + i)..(e - 1) : At(data, k) = c}) >= 3

\* prefix_quote: the length of the blockquote prefix of the line at b.
prefix_quote(data, b, e) ==
  LET i == IF b < e /\ At(data, b) = " "
           THEN IF b + 1 < e /\ At(data, b + 1) = " "
                THEN IF b + 2 < e /\ At(data, b + 2) = " " THEN 3 ELSE 2
                ELSE 1
           ELSE 0
  IN IF b + i < e /\ At(data, b + i) = ">"
     THEN IF b + i + 1 < e /\ IsBlank(At(data, b + i + 1)) THEN i + 2 ELSE i + 1
     ELSE 0

\* The text of a paragraph or header, parsed into a new work buffer and
\* handed to the block callback.
block_render(st, cfg, data, from, to, hook, name, level) ==
  LET returned(inner, after) ==
        LET called == IF hook = "NULL" THEN inner.st
                      ELSE Ev(inner.st, "hook", name, inner.st.ob,
                              From(after, Len(st.ob)), 1)
        IN [st |-> [ob |-> after,
                    wk |-> release_work_buffer(called.wk), tr |-> called.tr],
            data |-> Sub(data, 0, from) \o inner.data \o From(data, to)]
      parsed(inner) == returned(inner, call_block(hook, st.ob, inner.st.ob, level))
  IN parsed(parse_inline(new_work_buffer(st), cfg, Sub(data, from, to)))

\* parse_paragraph: the lines up to a blank line, a header or a rule.
RECURSIVE paragraph_lines(_, _, _)
paragraph_lines(data, b, i) ==
  IF b + i >= Len(data) THEN [i |-> i, end |-> i]
  ELSE IF is_empty(data, b + i) # 0 THEN [i |-> i, end |-> next_line(data, b + i) - b]
  ELSE IF (i # 0 /\ At(data, b + i) = "#") \/ is_hrule(data, b + i) THEN [i |-> i, end |-> i]
  ELSE paragraph_lines(data, b, next_line(data, b + i) - b)

RECURSIVE strip_newlines(_, _, _)
strip_newlines(data, b, n) ==
  IF n > 0 /\ At(data, b + n - 1) = "\n" THEN strip_newlines(data, b, n - 1) ELSE n

parse_paragraph(st, cfg, data, b) ==
  LET l == paragraph_lines(data, b, 0)
      wsize == strip_newlines(data, b, l.i)
      returned(r) == Res(r.st, l.end, r.data)
  IN returned(block_render(st, cfg, data, b, b + wsize, cfg.rndr.paragraph,
                           "paragraph", 0))

\* parse_atxheader: one to six '#', the title, optional closing '#'.
RECURSIVE count_hashes(_, _, _)
count_hashes(data, b, level) ==
  IF b + level < Len(data) /\ level < 6 /\ At(data, b + level) = "#"
  THEN count_hashes(data, b, level + 1) ELSE level

RECURSIVE strip_hashes(_, _)
strip_hashes(data, e) == IF e > 0 /\ At(data, e - 1) = "#" THEN strip_hashes(data, e - 1) ELSE e

RECURSIVE strip_blanks(_, _)
strip_blanks(data, e) == IF e > 0 /\ IsBlank(At(data, e - 1)) THEN strip_blanks(data, e - 1) ELSE e

\* Whether the header at b has no title: parse_atxheader hands it over to
\* parse_paragraph.
atx_empty(data, b) ==
  LET d == From(data, b)
      i == skip_blanks(d, count_hashes(d, 0, 0), Len(d))
      skip == line_end(d, i)
  IN skip <= i \/ strip_blanks(d, strip_hashes(d, skip)) <= i

parse_atxheader(st, cfg, data, b) ==
  LET d == From(data, b)
      level == count_hashes(d, 0, 0)
      i == skip_blanks(d, level, Len(d))
      skip == line_end(d, i)
      end == strip_blanks(d, strip_hashes(d, skip))
      returned(r) == Res(r.st, skip, r.data)
  IN IF atx_empty(data, b) THEN parse_paragraph(st, cfg, data, b)
     ELSE IF cfg.rndr.header = "NULL" THEN Res(st, skip, data)
     ELSE returned(block_render(st, cfg, data, b + i, b + end, cfg.rndr.header,
                                "header", level))

\* parse_blockquote: the lines of the quote, without their prefix, are
\* parsed as blocks into a new work buffer.
RECURSIVE quote_lines(_, _, _, _)
quote_lines(data, b, i, acc) ==
  IF b + i >= Len(data) THEN [end |-> i, work_data |-> acc]
  ELSE LET end == next_line(data, b + i) - b
           pre == prefix_quote(data, b + i, b + end)
           stop == /\ pre = 0
                   /\ is_empty(data, b + i) # 0
                   /\ \/ b + end >= Len(data)
                      \/ /\ prefix_quote(data, b + end, Len(data)) = 0
                         /\ is_empty(data, b + end) = 0
       IN IF stop THEN [end |-> end, work_data |-> acc]
          ELSE quote_lines(data, b, end, acc \o Sub(data, b + i + pre, b + end))

parse_blockquote(st, cfg, data, b) ==
  LET q == quote_lines(data, b, 0, <<>>)
      returned(inner, after) ==
        LET called == IF cfg.rndr.blockquote = "NULL" THEN inner.st
                      ELSE Ev(inner.st, "hook", "blockquote", inner.st.ob,
                              From(after, Len(st.ob)), 1)
        IN Res([ob |-> after,
                wk |-> release_work_buffer(called.wk), tr |-> called.tr],
               q.end, data)
      parsed(inner) ==
        returned(inner, call_block(cfg.rndr.blockquote, st.ob, inner.st.ob, 0))
  IN parsed(parse_block(new_work_buffer(st), cfg, q.work_data))

\* The horizontal rule at b: the callback, then the line is skipped.
parse_hrule(st, cfg, data, b) ==
  LET returned(after) ==
        Res(IF cfg.rndr.hrule = "NULL" THEN st
            ELSE [Ev(st, "hook", "hrule", <<>>, From(after, Len(st.ob)), 1)
                    EXCEPT !.ob = after],
            line_end(data, b) + 1 - b, data)
  IN returned(call_block(cfg.rndr.hrule, st.ob, <<>>, 0))

(***************************************************************************)
(* Tables.  A line with a column separator starts a table; when its second  *)
(* line is a header rule the first line is the header row.  A row is parsed *)
(* cell by cell: table_cell is called for each cell of the line.            *)
(***************************************************************************)
\* is_tablesep: a '|' that is not escaped; i0 is the start of the row.
is_tablesep(data, i0, i) ==
  At(data, i) = "|" /\ (i = i0 \/ At(data, i - 1) # "\\")

RECURSIVE count_seps(_, _, _, _)
count_seps(data, i0, i, n) ==
  IF i < Len(data) /\ At(data, i) # "\n"
  THEN count_seps(data, i0, i + 1, IF is_tablesep(data, i0, i) THEN n + 1 ELSE n)
  ELSE n

RECURSIVE back_spaces(_, _, _)
back_spaces(data, i, lo) ==
  IF i > lo /\ IsSpace(At(data, i - 1)) THEN back_spaces(data, i - 1, lo) ELSE i

\* is_tableline: the number of columns of the line at b, 0 when it has no
\* column separator.
is_tableline(data, b) ==
  LET i == skip_blanks(data, b, Len(data))
      n_sep == count_seps(data, b, i, 0)
      e == back_spaces(data, line_end(data, i), b)
      outer_sep == (IF i < Len(data) /\ At(data, i) = "|" THEN 1 ELSE 0)
                   + (IF e > b /\ is_tablesep(data, b, e - 1) THEN 1 ELSE 0)
  IN IF n_sep > 0 THEN n_sep - outer_sep + 1 ELSE 0

\* The hook table has the three callbacks of tables.
has_table(r) == r.table # "NULL" /\ r.table_row # "NULL" /\ r.table_cell # "NULL"

RECURSIVE cell_end(_, _, _, _)
cell_end(data, i0, i, end) ==
  IF i < end /\ ~is_tablesep(data, i0, i) /\ At(data, i) # "\n"
  THEN cell_end(data, i0, i + 1, end) ELSE i

\* The cells of the row data[b, end) from offset i on, each parsed into a new
\* work buffer and handed to table_cell; total is the offset after the
\* newline that ended the row, b when the row ended with its data.
RECURSIVE table_cells(_, _, _, _, _, _, _)
table_cells(st, cfg, data, b, end, i, flags) ==
  IF i >= end THEN [st |-> st, data |-> data, total |-> b]
  ELSE LET c_beg == skip_blanks(data, IF At(data, i) = ":" THEN i + 1 ELSE i, end)
           sep == cell_end(data, b, c_beg, end)
           i1 == IF sep < end THEN sep + 1 ELSE sep
           total == IF sep < end /\ At(data, sep) = "\n" THEN i1 ELSE b
           c_end == trim_right(data, IF i1 > c_beg /\ At(data, sep - 1) = ":"
                                     THEN sep - 1 ELSE sep, c_beg)
           next(r) ==
             IF total # b THEN [st |-> r.st, data |-> r.data, total |-> total]
             ELSE table_cells(r.st, cfg, r.data, b, end, i1, flags)
       IN IF total # b /\ c_end <= c_beg THEN [st |-> st, data |-> data, total |-> total]
          ELSE next(block_render(st, cfg, data, c_beg, c_end, cfg.rndr.table_cell,
                                 "table_cell", flags))

\* parse_table_row that renders the cells of a row up to the number of
\* columns of the header rule: a longer row is truncated.
RECURSIVE table_cells_square(_, _, _, _, _, _, _, _)
table_cells_square(st, cfg, data, b, end, i, flags, left) ==
  IF i >= end THEN [st |-> st, data |-> data, total |-> b]
  ELSE LET c_beg == skip_blanks(data, i, end)
           sep == cell_end(data, b, c_beg, end)
           i1 == IF sep < end THEN sep + 1 ELSE sep
           total == IF sep < end /\ At(data, sep) = "\n" THEN i1 ELSE b
           c_end == trim_right(data, sep, c_beg)
           next(r) ==
             IF total # b THEN [st |-> r.st, data |-> r.data, total |-> total]
             ELSE table_cells_square(r.st, cfg, r.data, b, end, i1, flags, left - 1)
       IN IF total # b /\ c_end <= c_beg THEN [st |-> st, data |-> data, total |-> total]
          ELSE next(IF left > 0
                    THEN block_render(st, cfg, data, c_beg, c_end, cfg.rndr.table_cell,
                                      "table_cell", flags)
                    ELSE [st |-> st, data |-> data])

parse_table_row_square(st, cfg, data, b, end, align_size, flags) ==
  LET i == skip_blanks(data, b, end)
      returned(r) ==
        LET after == call_block(cfg.rndr.table_row, st.ob, r.st.ob, flags)
            called == Ev(r.st, "hook", "table_row", r.st.ob, From(after, Len(st.ob)), 1)
        IN [st |-> [ob |-> after, wk |-> release_work_buffer(called.wk),
                    tr |-> called.tr],
            data |-> r.data,
            n |-> IF r.total # b THEN r.total - b ELSE end - b]
  IN returned(table_cells_square(new_work_buffer(st), cfg, data, b, end,
                                 IF i < end /\ At(data, i) = "|" THEN i + 1 ELSE i,
                                 flags, align_size))

\* parse_table_row: the row data[b, end): its cells are rendered into a new
\* work buffer, which goes to table_row; n is the size of the row.
parse_table_row(st, cfg, data, b, end, align_size, flags) ==
  LET i == skip_blanks(data, b, end)
      returned(r) ==
        LET after == call_block(cfg.rndr.table_row, st.ob, r.st.ob, flags)
            called == Ev(r.st, "hook", "table_row", r.st.ob, From(after, Len(st.ob)), 1)
        IN [st |-> [ob |-> after, wk |-> release_work_buffer(called.wk),
                    tr |-> called.tr],
            data |-> r.data,
            n |-> IF r.total # b THEN r.total - b ELSE end - b]
  IN returned(table_cells(new_work_buffer(st), cfg, data, b, end,
                          IF i < end /\ At(data, i) = "|" THEN i + 1 ELSE i, flags))

\* The header rule after the first line: blanks, '-', ':' and '|' up to the
\* end of the line; align_size is the number of its columns.
RECURSIVE rule_end(_, _, _)
rule_end(data, i, n) ==
  IF i < Len(data) /\ (IsBlank(At(data, i)) \/ At(data, i) \in {"-", ":", "|"})
  THEN rule_end(data, i + 1, IF At(data, i) = "|" THEN n + 1 ELSE n)
  ELSE [i |-> i, align_size |-> n + 1]

\* The rows of the body of a table: the table lines from i on.
RECURSIVE table_rows(_, _, _, _, _)
table_rows(st, cfg, data, i, align_size) ==
  IF i < Len(data) /\ is_tableline(data, i) # 0
  THEN LET next(r) == table_rows(r.st, cfg, r.data, i + r.n, align_size)
       IN next(parse_table_row(st, cfg, data, i, Len(data), align_size, 0))
  ELSE [st |-> st, data |-> data, i |-> i]

\* The body of a table after its header row h (rendered into h.st.ob, the
\* second work buffer): the rows from i on are rendered into the first one.
table_body(h, cfg, i, align_size) ==
  [head |-> h.st.ob,
   rows |-> table_rows([ob |-> <<>>, wk |-> h.st.wk, tr |-> h.st.tr], cfg, h.data,
                       i, align_size)]

\* parse_table: the table at b.  The rows are rendered into one work buffer
\* and the header row into another; both go to the table callback.
parse_table(st, cfg, data, b) ==
  LET head_end == line_end(data, b)
      rule == rule_end(data, head_end + 1, 0)
      has_head == head_end < Len(data) /\ rule.i < Len(data) /\ At(data, rule.i) = "\n"
      rows_buf == new_work_buffer(st)
      returned(t) ==
        LET after == call_block(cfg.rndr.table, st.ob, t.head \o t.rows.st.ob, 0)
            called == Ev(t.rows.st, "hook", "table", t.head \o t.rows.st.ob,
                         From(after, Len(st.ob)), 1)
            wk1 == release_work_buffer(called.wk)
        IN Res([ob |-> after,
                wk |-> IF has_head THEN release_work_buffer(wk1) ELSE wk1,
                tr |-> called.tr],
               t.rows.i - b, t.rows.data)
  IN returned(table_body(IF has_head
                         THEN parse_table_row(new_work_buffer(rows_buf), cfg, data, b,
                                              head_end, rule.align_size, MKD_CELL_HEAD)
                         ELSE [st |-> rows_buf, data |-> data],
                         cfg, IF has_head THEN rule.i + 1 ELSE b, rule.align_size))

\* The kind of the block at b.
block_kind(cfg, data, b) ==
  IF is_empty(data, b) # 0 THEN "empty"
  ELSE IF At(data, b) = "#" THEN "atxheader"
  ELSE IF is_hrule(data, b) THEN "hrule"
  ELSE IF prefix_quote(data, b, Len(data)) # 0 THEN "blockquote"
  ELSE IF has_table(cfg.rndr) /\ is_tableline(data, b) # 0 THEN "table"
  ELSE "paragraph"

\* An iteration of the loop of parse_block that parses no byte.
block_step_stuck(st, cfg, data, b) == [st |-> st, beg |-> b, data |-> data]

\* One iteration of the loop of parse_block: the block at b is parsed and
\* b advances by its size.  The event tells the function that parsed it.
block_step(st, cfg, data, b) ==
  LET kind == block_kind(cfg, data, b)
      parsed == IF kind = "atxheader" /\ atx_empty(data, b) THEN "paragraph" ELSE kind
      returned(r) ==
        [st |-> Ev(r.st, "block", parsed, Sub(data, b, b + r.n),
                   From(r.st.ob, Len(st.ob)), 0),
         beg |-> b + r.n, data |-> r.data]
  IN returned(CASE kind = "empty" -> Res(st, is_empty(data, b), data)
                [] kind = "atxheader" -> parse_atxheader(st, cfg, data, b)
                [] kind = "hrule" -> parse_hrule(st, cfg, data, b)
                [] kind = "blockquote" -> parse_blockquote(st, cfg, data, b)
                [] kind = "table" -> parse_table(st, cfg, data, b)
                [] kind = "paragraph" -> parse_paragraph(st, cfg, data, b))

RECURSIVE block_loop(_, _, _, _)
block_loop(st, cfg, data, b) ==
  IF b >= Len(data) THEN [st |-> st, data |-> data]
  ELSE LET next(r) == block_loop(r.st, cfg, r.data, r.beg)
       IN next(block_step(st, cfg, data, b))

\* parse_block without the check of the number of work buffers in use.
parse_block_unguarded(st, cfg, data) ==
  LET entered == Ev(st, "enter", "parse_block", data, <<>>, 0)
      returned(r) ==
        [st |-> Ev(r.st, "exit", "parse_block", data, From(r.st.ob, Len(st.ob)), 0),
         data |-> r.data]
  IN returned(block_loop(entered, cfg, data, 0))

\* parse_block: above the ceiling the input is appended as it is.
parse_block(st, cfg, data) ==
  LET entered == Ev(st, "enter", "parse_block", data, <<>>, 0)
      returned(r) ==
        [st |-> Ev(r.st, "exit", "parse_block", data, From(r.st.ob, Len(st.ob)), 0),
         data |-> r.data]
  IN returned(IF st.wk.size > cfg.rndr.max_work_stack
              THEN [st |-> [entered EXCEPT !.ob = @ \o data], data |-> data]
              ELSE block_loop(entered, cfg, data, 0))

\* markdown(): the whole parse of an input with a hook table.
NoWork == [size |-> 0, asize |-> 0]

markdown(input, r) ==
  LET pass2(p1) ==
        parse_block([ob |-> <<>>, wk |-> NoWork, tr |-> <<>>],
                    [rndr |-> r, refs |-> p1.refs], p1.text).st
  IN pass2(first_pass(input, 0, <<>>, <<>>))

(***************************************************************************)
(* Buffers with their allocated size, and the reading of the input in       *)
(* main().  A struct buf is its data (asize bytes, the ones from size on    *)
(* indeterminate), size, asize and unit.                                    *)
(***************************************************************************)
\* A byte of allocated memory that was never written.
INDET == "?"

bufnew(unit) == [data |-> <<>>, size |-> 0, asize |-> 0, unit |-> unit]

\* bufgrow that gets new memory without the bytes of the old one.
bufgrow_fresh(b, neosz, ok) ==
  IF b.asize >= neosz \/ ~ok THEN b
  ELSE LET neoasz == b.asize + b.unit * (((neosz - b.asize - 1) \div b.unit) + 1)
       IN [b EXCEPT !.data = [k \in 1..neoasz |-> INDET], !.asize = neoasz]

\* bufgrow: asize is raised by units until it is neosz or more; ok is
\* whether realloc gives the memory, the buffer being left as it is when it
\* does not.
bufgrow(b, neosz, ok) ==
  IF b.asize >= neosz \/ ~ok THEN b
  ELSE LET neoasz == b.asize + b.unit * (((neosz - b.asize - 1) \div b.unit) + 1)
       IN [b EXCEPT !.data = @ \o [k \in 1..(neoasz - b.asize) |-> INDET],
                    !.asize = neoasz]

\* fread(b->data + b->size, 1, ret, in) of the bytes at offset pos of the
\* stream.
fread(b, stream, pos, ret) ==
  [b EXCEPT !.data = [k \in 1..Len(@) |->
                        IF k > b.size /\ k <= b.size + ret
                        THEN stream[pos + k - b.size] ELSE @[k]]]

\* The state of the reading outside main()'s loop.
NotReading ==
  /\ fin = <<>>
  /\ fpos = 0
  /\ ibuf = bufnew(ReadUnit)
  /\ rpc = "idle"

\* The streams read: up to MaxLen bytes.
ReadInputs == SeqsUpTo({"a", "b"}, MaxLen)

\* main() after ib = bufnew(READ_UNIT).
InitRead ==
  /\ fin \in ReadInputs
  /\ fpos = 0
  /\ ibuf = bufnew(ReadUnit)
  /\ rpc = "bufgrow"
  /\ ib = <<>>
  /\ rndr = to_man
  /\ pc = "reading"
  /\ beg = 0
  /\ text = <<>>
  /\ refs = <<>>
  /\ ob = <<>>
  /\ work = NoWork
  /\ trace = <<>>
  /\ current_buf = 0
  /\ tops = <<>>
  /\ tpc = <<>>
  /\ treg = <<>>
  /\ tob = <<>>

\* bufgrow(ib, READ_UNIT) before the loop and bufgrow(ib, ib->size +
\* READ_UNIT) in it; its result is not looked at.
Bufgrow ==
  /\ rpc = "bufgrow"
  /\ \E ok \in BOOLEAN : ibuf' = bufgrow(ibuf, ibuf.size + ReadUnit, ok)
  /\ rpc' = "fread"
  /\ UNCHANGED <<fin, fpos>>
  /\ UNCHANGED pvars
  /\ UNCHANGED tvars

\* fread gives ret bytes, at most the room left in the buffer: the loop
\* goes on with ib->size += ret.
FreadSome ==
  /\ rpc = "fread"
  /\ \E ret \in 1..(ibuf.asize - ibuf.size) :
       /\ ret <= Len(fin) - fpos
       /\ ibuf' = [fread(ibuf, fin, fpos, ret) EXCEPT !.size = @ + ret]
       /\ fpos' = fpos + ret
  /\ rpc' = "bufgrow"
  /\ UNCHANGED fin
  /\ UNCHANGED pvars
  /\ UNCHANGED tvars

\* fread gives 0 (end of the stream, an error, or no room in the buffer):
\* the loop ends, the bytes of the buffer are the input of markdown().
FreadNone ==
  /\ rpc = "fread"
  /\ rpc' = "read"
  /\ ib' = Sub(ibuf.data, 0, ibuf.size)
  /\ UNCHANGED <<fin, fpos, ibuf>>
  /\ UNCHANGED <<rndr, pc, beg, text, refs, ob, work, trace>>
  /\ UNCHANGED tvars

NextRead == Bufgrow \/ FreadSome \/ FreadNone

SpecRead == InitRead /\ [][NextRead]_vars

(***************************************************************************)
(* The program: markdown(ob, ib, rndr) run step by step.                    *)
(*   pass1  - the loop over the lines of ib (references taken out)          *)
(*   pass2  - the loop of the top-level parse_block over the text           *)
(*   done   - markdown() has returned                                       *)
(***************************************************************************)
Cfg == [rndr |-> rndr, refs |-> refs]

St == [ob |-> ob, wk |-> work, tr |-> trace]

InitWith(inputs, tables) ==
  /\ ib \in inputs
  /\ rndr \in tables
  /\ pc = "pass1"
  /\ beg = 0
  /\ text = <<>>
  /\ refs = <<>>
  /\ ob = <<>>
  /\ work = NoWork
  /\ trace = <<>>
  /\ current_buf = 0
  /\ tops = <<>>
  /\ tpc = <<>>
  /\ treg = <<>>
  /\ tob = <<>>
  /\ NotReading

\* One line of pass 1.
FirstPassLine ==
  /\ pc = "pass1"
  /\ beg < Len(ib)
  /\ LET line(s) ==
           /\ beg' = s.beg
           /\ text' = s.text
           /\ refs' = s.refs
     IN line(first_pass_line(ib, beg, text, refs))
  /\ UNCHANGED <<ib, rndr, pc, ob, work, trace>>
  /\ UNCHANGED tvars
  /\ UNCHANGED rvars

\* End of pass 1: the final newline, then parse_block is entered on the text.
FirstPassEnd ==
  /\ pc = "pass1"
  /\ beg >= Len(ib)
  /\ text' = final_newline(text)
  /\ beg' = 0
  /\ LET entered == Ev(St, "enter", "parse_block", text', <<>>, 0)
     IN IF work.size > rndr.max_work_stack
        THEN /\ ob' = ob \o text'
             /\ trace' = Ev(entered, "exit", "parse_block", text', text', 0).tr
             /\ pc' = "done"
        ELSE /\ ob' = ob
             /\ trace' = entered.tr
             /\ pc' = "pass2"
  /\ UNCHANGED <<ib, rndr, refs, work>>
  /\ UNCHANGED tvars
  /\ UNCHANGED rvars

\* One block of the top-level parse_block.
ParseBlockStep ==
  /\ pc = "pass2"
  /\ beg < Len(text)
  /\ LET block(r) ==
           /\ ob' = r.st.ob
           /\ work' = r.st.wk
           /\ trace' = r.st.tr
           /\ text' = r.data
           /\ beg' = r.beg
     IN block(block_step(St, Cfg, text, beg))
  /\ UNCHANGED <<ib, rndr, pc, refs>>
  /\ UNCHANGED tvars
  /\ UNCHANGED rvars

\* The top-level parse_block returns, and markdown() with it.
ParseBlockEnd ==
  /\ pc = "pass2"
  /\ beg >= Len(text)
  /\ trace' = Ev(St, "exit", "parse_block", trace[1].d, ob, 0).tr
  /\ pc' = "done"
  /\ UNCHANGED <<ib, rndr, beg, text, refs, ob, work>>
  /\ UNCHANGED tvars
  /\ UNCHANGED rvars

Next == FirstPassLine \/ FirstPassEnd \/ ParseBlockStep \/ ParseBlockEnd

\* Inputs nesting quotes and emphasis, under every ceiling up to MaxCeiling
\* and under the ceiling of the terminal renderer.
NestInputs == SeqsUpTo({">", "*", "a", "\n"}, MaxLen)

NestTables == {[to_man EXCEPT !.max_work_stack = m] : m \in 0..MaxCeiling} \cup {to_man}

Init == InitWith(NestInputs, NestTables)

Spec == Init /\ [][Next]_vars

\* Documents made of up to MaxLines lines: two definitions of the same
\* identifier, a use of it, a line that reads as a title, a line of text and
\* the empty line; under the tagging renderer, which renders links, and
\* under the terminal renderer, which has no link callback.
DefLineA == <<"[", "a", "]", ":", "x">>

DefLineB == <<"[", "A", "]", ":", "b">>

UseLine == <<"[", "t", "]", "[", "a", "]">>

TitleLine == <<"\"", "T", "\"">>

RefLines == {DefLineA, DefLineB, UseLine, TitleLine, <<"p">>, <<>>}

RECURSIVE JoinLines(_)
JoinLines(ls) ==
  IF ls = <<>> THEN <<>>
  ELSE IF Len(ls) = 1 THEN ls[1]
  ELSE ls[1] \o <<"\n">> \o JoinLines(Tail(ls))

RECURSIVE SplitLines(_)
SplitLines(data) ==
  IF data = <<>> THEN <<>>
  ELSE LET e == line_end(data, 0)
       IN <<Sub(data, 0, e)>> \o SplitLines(From(data, e + 1))

RefDocs == {JoinLines(ls) : ls \in SeqsUpTo(RefLines, MaxLines)}

BothTables == {ev_table, to_man}

InitRef == InitWith(RefDocs, BothTables)

SpecRef == InitRef /\ [][Next]_vars

\* Inputs of blocks (quotes, headers, rules, paragraphs) under the tagging
\* renderer, which has every block callback, and under the terminal
\* renderer, which has no blockquote and no hrule callback.
HookInputs == SeqsUpTo({">", "#", "*", "a", "\n"}, MaxLen)

InitHook == InitWith(HookInputs, BothTables)

SpecHook == InitHook /\ [][Next]_vars

\* A step of the program while markdown() has not returned: a step that
\* changes the state.  The first disjunct names one such change.
Running ==
  /\ pc # "done"
  /\ \/ pc' = "done" /\ UNCHANGED <<ib, rndr, beg, text, refs, ob, work, trace>>
               /\ UNCHANGED tvars /\ UNCHANGED rvars
     \/ vars' # vars

\* The parse of the same inputs as a program that runs: markdown() is not
\* interrupted, so as long as it has not returned the program takes steps.
SpecLive == InitHook /\ [][Next]_vars /\ WF_vars(Running)

\* Inputs of spans (code spans, emphasis of '*', hard breaks) under the
\* tagging renderer and under the terminal renderer.
SpanInputs == SeqsUpTo({BACKTICK, "*", "a", " ", "\n"}, MaxLen)

InitSpan == InitWith(SpanInputs, BothTables)

SpecSpan == InitSpan /\ [][Next]_vars

\* Inputs of emphasis of '*' and of '+' under the renderer whose emphasis
\* callback declines '+'.
DeclineInputs == SeqsUpTo({"+", "*", "a", " "}, MaxLen)

InitDecline == InitWith(DeclineInputs, {nat_table})

SpecDecline == InitDecline /\ [][Next]_vars

\* Inputs of one entity, '&', a name of up to MaxName bytes and ';', under
\* the terminal renderer.
EntityInputs ==
  {<<"&">> \o name \o <<";">> : name \in SeqsUpTo({"g", "t", "a", "#", "6", "5"}, MaxName)}

InitEntity == InitWith(EntityInputs, {to_man})

SpecEntity == InitEntity /\ [][Next]_vars

\* Inputs of emphasis of '*' and of '_', the two emphasis characters of the
\* terminal renderer, under the tagging renderer and the terminal renderer.
EmphInputs == SeqsUpTo({"*", "_", "a"}, MaxLen)

InitEmph == InitWith(EmphInputs, BothTables)

SpecEmph == InitEmph /\ [][Next]_vars

\* Plain text: documents of up to MaxLines lines of words and blanks, with
\* and without a newline after the last line, under the renderer of literal
\* passthrough.
PlainLines == {<<>>, <<" ">>, <<"a">>, <<"a", " ", "b">>, <<"b", " ">>}

PlainDocs == {JoinLines(ls) : ls \in SeqsUpTo(PlainLines, MaxLines)}

InitPlain == InitWith(PlainDocs, {pass_table})

SpecPlain == InitPlain /\ [][Next]_vars

\* Tables under the tagging renderer with the table callbacks: a header row
\* of two cells, a header rule, a row of the listed ones and a row of up to
\* MaxLen bytes, which is a row of any number of cells, a line of text or
\* the empty line.
TableHead == <<"h", "|", "h">>

TableRules == {<<"-", "|", "-">>, <<"|", "-", "|", "-", "|">>}

TableFirstRows == {<<"x", "|", "y">>, <<" ", "x", " ", "|", " ", "y", " ">>,
                   <<"|", "x", "|">>, <<"x", "|", "|", "y">>}

TableDocs ==
  {JoinLines(<<TableHead, rule, r1, r2>>) :
     rule \in TableRules, r1 \in TableFirstRows, r2 \in SeqsUpTo({"p", "|"}, MaxLen)}

InitTable == InitWith(TableDocs, {tab_table})

SpecTable == InitTable /\ [][Next]_vars

(***************************************************************************)
(* Two parses on two threads.  Each thread runs a callback of the terminal  *)
(* renderer on its own ob and its own text: tops[k] is the sequence of the  *)
(* callback's buffer operations, tpc[k] the next one, tob[k] the thread's   *)
(* ob.  current_buf is the one global of mkd2term.c: put_term stores the    *)
(* thread's ob in it and buffer_putc, called by tputs for each byte, reads  *)
(* it (into treg[k]) and appends the byte to the buffer it names.           *)
(***************************************************************************)
Threads == {1, 2}

ThreadTexts == {<<"a">>, <<"b">>}

\* The emphasis callback on the texts: put_term, the text, put_term_normal.
ThreadCallbacks == {term_emphasis(t, "*").ops : t \in ThreadTexts}

InitThreads ==
  /\ ib = <<>>
  /\ rndr = to_man
  /\ pc = "callbacks"
  /\ beg = 0
  /\ text = <<>>
  /\ refs = <<>>
  /\ ob = <<>>
  /\ work = NoWork
  /\ trace = <<>>
  /\ current_buf = 0
  /\ tops \in [Threads -> ThreadCallbacks]
  /\ tpc = [k \in Threads |-> 1]
  /\ treg = [k \in Threads |-> 0]
  /\ tob = [k \in Threads |-> <<>>]
  /\ NotReading

ThreadOp(k) == tops[k][tpc[k]]

\* bufput, bufputc, BUFPUTSL on the thread's ob.
ThreadPut(k) ==
  /\ tpc[k] <= Len(tops[k])
  /\ ThreadOp(k).op = "put"
  /\ tob' = [tob EXCEPT ![k] = @ \o ThreadOp(k).s]
  /\ tpc' = [tpc EXCEPT ![k] = @ + 1]
  /\ UNCHANGED <<current_buf, tops, treg>>
  /\ UNCHANGED pvars
  /\ UNCHANGED rvars

\* put_term: current_buf = ob.
ThreadCur(k) ==
  /\ tpc[k] <= Len(tops[k])
  /\ ThreadOp(k).op = "cur"
  /\ current_buf' = k
  /\ tpc' = [tpc EXCEPT ![k] = @ + 1]
  /\ UNCHANGED <<tops, treg, tob>>
  /\ UNCHANGED pvars
  /\ UNCHANGED rvars

\* buffer_putc: current_buf is read.
ThreadLoad(k) ==
  /\ tpc[k] <= Len(tops[k])
  /\ ThreadOp(k).op = "tputc"
  /\ treg[k] = 0
  /\ treg' = [treg EXCEPT ![k] = current_buf]
  /\ UNCHANGED <<current_buf, tops, tpc, tob>>
  /\ UNCHANGED pvars
  /\ UNCHANGED rvars

\* buffer_putc: bufputc on the buffer read from current_buf.
ThreadTputc(k) ==
  /\ tpc[k] <= Len(tops[k])
  /\ ThreadOp(k).op = "tputc"
  /\ treg[k] # 0
  /\ tob' = [tob EXCEPT ![treg[k]] = @ \o ThreadOp(k).s]
  /\ treg' = [treg EXCEPT ![k] = 0]
  /\ tpc' = [tpc EXCEPT ![k] = @ + 1]
  /\ UNCHANGED <<current_buf, tops>>
  /\ UNCHANGED pvars
  /\ UNCHANGED rvars

NextThreads ==
  \E k \in Threads : ThreadPut(k) \/ ThreadCur(k) \/ ThreadLoad(k) \/ ThreadTputc(k)

SpecThreads == InitThreads /\ [][NextThreads]_vars

(***************************************************************************)
(* The callbacks of mkd2term.c that switch a terminal attribute on, called  *)
(* one after the other as the parser calls them: with a text of its own    *)
(* appended to the output so far, or with the output so far as the text (a *)
(* nested construct rendered into a work buffer and handed to the callback *)
(* of the enclosing one).  A null text and an empty text are both the      *)
(* empty sequence.                                                          *)
(***************************************************************************)
CallTexts == {<<>>, <<"a">>}

InitCalls ==
  /\ ib = <<>>
  /\ rndr = to_man
  /\ pc = "calls"
  /\ beg = 0
  /\ text = <<>>
  /\ refs = <<>>
  /\ ob = <<>>
  /\ work = NoWork
  /\ trace = <<>>
  /\ current_buf = 0
  /\ tops = <<>>
  /\ tpc = <<>>
  /\ treg = <<>>
  /\ tob = <<>>
  /\ NotReading

\* The frame of a call: base is the ob the callback appends to, txt its text.
Called(name, base, d, ops, r) ==
  /\ ob' = RunOps(base, ops)
  /\ trace' = Ev([ob |-> base, wk |-> work, tr |-> trace], "hook", name, d,
                 From(RunOps(base, ops), Len(base)), r).tr
  /\ UNCHANGED <<ib, rndr, pc, beg, text, refs, work>>
  /\ UNCHANGED tvars
  /\ UNCHANGED rvars

CallArgs == {<<ob, t>> : t \in CallTexts} \cup {<<<<>>, ob>>}

\* rndr.header(ob, text, level, opaque)
CallHeader ==
  /\ pc = "calls"
  /\ Len(trace) < MaxCalls
  /\ \E a \in CallArgs, level \in 1..4 :
       Called("header", a[1], a[2], term_header(a[2], level), 1)

\* rndr.emphasis(ob, text, c, opaque)
CallEmphasis ==
  /\ pc = "calls"
  /\ Len(trace) < MaxCalls
  /\ \E a \in CallArgs, c \in to_man.emph_chars :
       Called("emphasis", a[1], <<c>> \o a[2],
              term_emphasis(a[2], c).ops, term_emphasis(a[2], c).r)

\* rndr.double_emphasis(ob, text, c, opaque)
CallDoubleEmphasis ==
  /\ pc = "calls"
  /\ Len(trace) < MaxCalls
  /\ \E a \in CallArgs, c \in to_man.emph_chars :
       Called("double_emphasis", a[1], <<c>> \o a[2],
              term_double_emphasis(a[2], c).ops, term_double_emphasis(a[2], c).r)

NextCalls ==
  \/ CallHeader
  \/ CallEmphasis
  \/ CallDoubleEmphasis

SpecCalls == InitCalls /\ [][NextCalls]_vars

(***************************************************************************)
(* Readings of the trace.                                                   *)
(***************************************************************************)
\* The calls of parse_block and parse_inline active after the first k events.
RECURSIVE Active(_, _)
Active(tr, k) ==
  IF k = 0 THEN 0
  ELSE Active(tr, k - 1) + (CASE tr[k].e = "enter" -> 1
                              [] tr[k].e = "exit" -> -1
                              [] OTHER -> 0)

\* The deepest nesting of parse_block and parse_inline calls so far.
Depth(tr) == CHOOSE d \in {Active(tr, k) : k \in 0..Len(tr)} :
               \A k \in 0..Len(tr) : Active(tr, k) <= d

\* The events of one kind, in order.
Events(tr, e) == SelectSeq(tr, LAMBDA v : v.e = e)

(***************************************************************************)
(* The recursion ceiling.                                                   *)
(***************************************************************************)
\* C1 as stated: the nesting depth of parse_block and parse_inline calls never
\* exceeds the ceiling, max_work_stack.
C1_DepthWithinCeiling == Depth(trace) <= rndr.max_work_stack

\* C1, amended: the nesting depth of parse_block and parse_inline calls never
\* exceeds max_work_stack + 2 (the calls entered with 0..max_work_stack work
\* buffers in use run, and the one nested in the last of them is cut short).
C1_DepthWithinCeilingPlusTwo == Depth(trace) <= rndr.max_work_stack + 2

\* C1 witness: a finished parse whose calls nested max_work_stack + 2 deep.
C1_DepthReachesCeilingPlusTwo ==
  /\ pc = "done"
  /\ Depth(trace) = rndr.max_work_stack + 2

\* C2: when markdown() returns, no work buffer is in use.
C2_NoWorkBufferInUseAtEnd == pc = "done" => work.size = 0

\* C2 witness: a finished parse that had three work buffers in use at once.
C2_BuffersUsedAndReleased ==
  /\ pc = "done"
  /\ work.size = 0
  /\ work.asize >= 3

\* C3: a parse_block or parse_inline call entered with more than
\* max_work_stack work buffers in use appends its input to its output as it
\* is, once, and returns: no callback is called, no block or span is parsed
\* and no parse call is nested in it.
C3_ShortCircuitAppendsInput ==
  \A k \in 1..Len(trace) :
    (trace[k].e = "enter" /\ trace[k].ws > rndr.max_work_stack) =>
      /\ k < Len(trace)
      /\ trace[k + 1].e = "exit"
      /\ trace[k + 1].fn = trace[k].fn
      /\ trace[k + 1].d = trace[k].d
      /\ trace[k + 1].out = trace[k].d

\* C3 witness: a finished parse in which a span-level call and a block-level
\* call were cut short on inputs holding markdown.
C3_BothLevelsCutShort ==
  /\ pc = "done"
  /\ \E k \in 1..Len(trace) :
       /\ trace[k].e = "enter" /\ trace[k].fn = "parse_inline"
       /\ trace[k].ws > rndr.max_work_stack
       /\ trace[k].d # <<>> /\ trace[k].d[1] = "*"
  /\ \E k \in 1..Len(trace) :
       /\ trace[k].e = "enter" /\ trace[k].fn = "parse_block"
       /\ trace[k].ws > rndr.max_work_stack
       /\ trace[k].d # <<>> /\ trace[k].d[1] = ">"

(***************************************************************************)
(* The reference pass.                                                      *)
(***************************************************************************)
\* Offset of the start of line k of ls in JoinLines(ls).
RECURSIVE LineStart(_, _)
LineStart(ls, k) == IF k <= 1 THEN 0 ELSE LineStart(ls, k - 1) + Len(ls[k - 1]) + 1

\* What the lines from k on are by the grammar of is_ref alone: "ref" a line
\* where a definition starts, "title" the line after it that holds its title
\* (a line starting before upto, the end of the definition), "body" the rest.
RECURSIVE LineStatus(_, _, _, _)
LineStatus(data, ls, k, upto) ==
  IF k > Len(ls) THEN <<>>
  ELSE LET b == LineStart(ls, k)
           r == is_ref(data, b, Len(data))
       IN IF b < upto THEN <<"title">> \o LineStatus(data, ls, k + 1, upto)
          ELSE IF r.ok THEN <<"ref">> \o LineStatus(data, ls, k + 1, r.last)
          ELSE <<"body">> \o LineStatus(data, ls, k + 1, 0)

Status(data) == LineStatus(data, SplitLines(data), 1, 0)

\* The lines of ls at the positions where keep holds, in order.
RECURSIVE Pick(_, _, _)
Pick(ls, keep, k) ==
  IF k > Len(ls) THEN <<>>
  ELSE (IF keep[k] THEN <<ls[k]>> ELSE <<>>) \o Pick(ls, keep, k + 1)

NonEmptyLines(data) ==
  LET ls == SplitLines(data) IN Pick(ls, [k \in 1..Len(ls) |-> ls[k] # <<>>], 1)

\* The callbacks called, with their arguments and results, in order.
Hooks(tr) ==
  LET h == Events(tr, "hook")
  IN [k \in 1..Len(h) |-> <<h[k].fn, h[k].d, h[k].r>>]

\* The parse of doc calls the callbacks of this parse and renders its output.
SameParse(doc) ==
  LET same(m) == m.ob = ob /\ Hooks(m.tr) = Hooks(trace)
  IN same(markdown(doc, rndr))

\* ls with line k moved to after line j (k < j).
MoveLine(ls, k, j) ==
  SubSeq(ls, 1, k - 1) \o SubSeq(ls, k + 1, j) \o <<ls[k]>> \o SubSeq(ls, j + 1, Len(ls))

UsesOf(ls) == {i \in 1..Len(ls) : ls[i] = UseLine}

BlockHooks == {"blockquote", "header", "hrule", "paragraph"}

\* The function of parse_block that parses the blocks of a callback.
KindOf(f) == IF f = "header" THEN "atxheader" ELSE f

\* The tags the tagging renderer puts around the blocks of a callback.
TagsOf(f) ==
  CASE f = "blockquote" -> {"blockquote"}
    [] f = "header" -> {"h1", "h2", "h3", "h4", "h5", "h6"}
    [] f = "hrule" -> {"hr"}
    [] f = "paragraph" -> {"p"}

\* buf without its elements of the tags: from each opening tag to its
\* closing tag.
RECURSIVE StripTags(_, _, _)
StripTags(buf, tags, depth) ==
  IF buf = <<>> THEN <<>>
  ELSE IF Head(buf) \in {"<" \o t \o ">" : t \in tags}
       THEN StripTags(Tail(buf), tags, depth + 1)
  ELSE IF Head(buf) \in {"</" \o t \o ">" : t \in tags}
       THEN StripTags(Tail(buf), tags, depth - 1)
  ELSE (IF depth = 0 THEN <<Head(buf)>> ELSE <<>>) \o StripTags(Tail(buf), tags, depth)

\* The blocks parsed, at every level, each with the bytes it consumed.
Blocks(tr) ==
  LET b == Events(tr, "block")
  IN [k \in 1..Len(b) |-> <<b[k].fn, b[k].ws, b[k].d>>]

ThisParse == [ob |-> ob, tr |-> trace]

\* The parse of the input with callback f set: this parse, or the parse
\* with the callback of the tagging renderer where this renderer has none.
WithHook(f) ==
  IF rndr[f] = "NULL" THEN markdown(ib, [rndr EXCEPT ![f] = ev_table[f]]) ELSE ThisParse

\* The parse of the input with callback f null.
WithoutHook(f) ==
  IF rndr[f] = "NULL" THEN ThisParse ELSE markdown(ib, [rndr EXCEPT ![f] = "NULL"])

SpanHooks == {"codespan", "emphasis", "double_emphasis", "triple_emphasis", "linebreak"}

\* The calls of the span-level callbacks other than f, in order.
OtherSpans(tr, f) ==
  SelectSeq(tr, LAMBDA v : v.e = "hook" /\ v.fn \in SpanHooks \ {f})

\* The hook table without span-level callbacks: every span is normal text.
NoSpanHooks(r) ==
  [r EXCEPT !.codespan = "NULL", !.emphasis = "NULL", !.double_emphasis = "NULL",
            !.triple_emphasis = "NULL", !.linebreak = "NULL", !.link = "NULL"]

\* C7 as stated, in the case where the spans of the callback f are the only
\* spans of the input: with f null they are in the output as their source,
\* so the output is the one of the renderer without span-level callbacks,
\* and no span of another kind is recognized.
C7_NullSpanHookLeavesSource ==
  pc = "done" =>
    \A f \in SpanHooks :
      (rndr[f] # "NULL" /\ OtherSpans(trace, f) = <<>>) =>
        LET m == markdown(ib, [rndr EXCEPT ![f] = "NULL"])
        IN /\ m.ob = markdown(ib, NoSpanHooks(rndr)).ob
           /\ OtherSpans(m.tr, f) = <<>>

\* The calls of the emphasis callbacks on spans delimited by '+'.
PlusCalls(tr) ==
  SelectSeq(tr, LAMBDA v : /\ v.e = "hook"
                           /\ v.fn \in {"emphasis", "double_emphasis", "triple_emphasis"}
                           /\ v.d[1] = "+")

\* C8: when every callback called on a span delimited by '+' declines, the
\* output is the output of the parse in which '+' is no emphasis character:
\* each '+' is normal text, nothing of a declined span is left, everything
\* else is rendered as it is without the declines; and no work buffer is
\* left in use.
C8_DeclinedSpanIsLiteral ==
  pc = "done" =>
    ((\A k \in 1..Len(PlusCalls(trace)) : PlusCalls(trace)[k].r = 0) =>
       /\ ob = markdown(ib, [rndr EXCEPT !.emph_chars = @ \ {"+"}]).ob
       /\ work.size = 0)

\* C8 witness: a finished parse in which the emphasis callback declined a
\* span of '+' that held rendered text, no callback accepted a span of '+',
\* and a span of '*' was rendered.
C8_DeclinedAndRendered ==
  /\ pc = "done"
  /\ PlusCalls(trace) # <<>>
  /\ \A k \in 1..Len(PlusCalls(trace)) :
       PlusCalls(trace)[k].r = 0 /\ Len(PlusCalls(trace)[k].d) > 1
  /\ \E k \in 1..Len(trace) :
       /\ trace[k].e = "hook" /\ trace[k].fn = "emphasis"
       /\ trace[k].d[1] = "*" /\ trace[k].r = 1

(***************************************************************************)
(* Entities.                                                                *)
(***************************************************************************)
\* C9 as stated: when term_entity is called on an entity that does not
\* translate (get_entity gives 0), the bytes it appends to the output are
\* the bytes of the entity.
C9_UnresolvedEntityVerbatim ==
  \A k \in 1..Len(trace) :
    (/\ trace[k].e = "hook" /\ trace[k].fn = "entity"
     /\ get_entity(trace[k].d, 0, Len(trace[k].d)).ent = 0)
    => trace[k].out = trace[k].d

(***************************************************************************)
(* Work buffers as the indicator of depth.                                  *)
(***************************************************************************)
\* The calls of parse_block and parse_inline that have not returned after
\* the first k events: the indexes of their "enter" events, innermost last.
RECURSIVE OpenCalls(_, _)
OpenCalls(tr, k) ==
  IF k = 0 THEN <<>>
  ELSE LET open(s) == CASE tr[k].e = "enter" -> Append(s, k)
                        [] tr[k].e = "exit" -> SubSeq(s, 1, Len(s) - 1)
                        [] OTHER -> s
       IN open(OpenCalls(tr, k - 1))

\* The k-th event against the calls open before it: a call entered inside
\* another one finds more work buffers in use than the enclosing call found
\* at its entry, and a call returns with as many in use as it found.
DepthIndicated(tr, k, s) ==
  /\ (tr[k].e = "enter" /\ s # <<>>) => tr[k].ws > tr[s[Len(s)]].ws
  /\ tr[k].e = "exit" =>
       /\ s # <<>>
       /\ tr[s[Len(s)]].fn = tr[k].fn
       /\ tr[k].ws = tr[s[Len(s)]].ws

\* C15: every nested call of parse_block or parse_inline is entered with
\* strictly more work buffers in use than its enclosing call was entered
\* with, and every call returns with the number of work buffers in use it
\* was entered with.
C15_WorkSizeGrowsWithDepth ==
  \A k \in 1..Len(trace) : DepthIndicated(trace, k, OpenCalls(trace, k - 1))

\* C15 witness: the terminal renderer has finished a parse in which a call
\* was entered with two work buffers in use inside a call entered with one,
\* inside the call of markdown() entered with none, and none is in use.
C15_ThreeLevelsEnteredAndLeft ==
  /\ pc = "done"
  /\ rndr = to_man
  /\ work.size = 0
  /\ \E k \in 1..Len(trace) :
       /\ trace[k].e = "enter" /\ trace[k].ws = 2
       /\ Len(OpenCalls(trace, k)) = 3
       /\ trace[OpenCalls(trace, k)[2]].ws = 1
       /\ trace[OpenCalls(trace, k)[1]].ws = 0

(***************************************************************************)
(* The second pass reads its input.                                         *)
(***************************************************************************)
\* C16 as stated: once the second pass has begun, no step of the parser and
\* no callback it calls changes a byte of the text being parsed, an entry
\* of the reference table or an entry of the renderer the active
\* characters are set up from.
C16_SecondPassReadsOnly ==
  [][pc = "pass2" => (text' = text /\ refs' = refs /\ rndr' = rndr)]_vars

(***************************************************************************)
(* The input buffer of main().                                              *)
(***************************************************************************)
\* C17: in every state of main()'s reading the input buffer has size
\* bytes at most asize, asize bytes of memory, and its size bytes are the
\* bytes read from the stream so far, in order; so that neither bufgrow nor
\* fread changes a byte read before, and the buffer holds the bytes read
\* when the loop ends.
C17_InputBufferHoldsBytesRead ==
  /\ ibuf.size <= ibuf.asize
  /\ Len(ibuf.data) = ibuf.asize
  /\ ibuf.size = fpos
  /\ Sub(ibuf.data, 0, ibuf.size) = Sub(fin, 0, fpos)
  /\ rpc = "read" => ib = Sub(fin, 0, fpos)

\* C17 witness: the loop has ended after the buffer grew to two units and
\* more, and the whole stream, of more bytes than one unit, was read.
C17_GrownAndRead ==
  /\ rpc = "read"
  /\ ibuf.asize >= 2 * ReadUnit
  /\ fpos = Len(fin)
  /\ Len(fin) > ReadUnit
  /\ ib = fin

(***************************************************************************)
(* Termination.                                                             *)
(***************************************************************************)
\* The step the program takes next is there and advances: the line of the
\* first pass and the block of the second pass at beg end after beg, and
\* at the end of the input each pass can end.
Advances ==
  /\ (pc = "pass1" /\ beg < Len(ib)) => first_pass_line(ib, beg, text, refs).beg > beg
  /\ (pc = "pass1" /\ beg >= Len(ib)) => ENABLED FirstPassEnd
  /\ (pc = "pass2" /\ beg < Len(text)) => block_step(St, Cfg, text, beg).beg > beg
  /\ (pc = "pass2" /\ beg >= Len(text)) => ENABLED ParseBlockEnd
  /\ pc \in {"pass1", "pass2", "done"}

\* C18: every step of the two passes advances by one byte or more, every
\* block parsed, by the parse_block of markdown() or by a nested one, has
\* one byte or more, and markdown() returns.
C18_ParseTerminates ==
  /\ []Advances
  /\ [](\A k \in 1..Len(trace) : trace[k].e = "block" => trace[k].d # <<>>)
  /\ <>(pc = "done")

\* C18 witness: markdown() has returned from the parse of a line of two '#',
\* which was parsed as one block.
C18_LineOfHashesParsed ==
  /\ pc = "done"
  /\ ib = <<"#", "#">>
  /\ \E k \in 1..Len(trace) : trace[k].e = "block" /\ trace[k].d = <<"#", "#", "\n">>
  /\ trace[Len(trace)].e = "exit"

(***************************************************************************)
(* Emphasis of '*' and '_'.                                                 *)
(***************************************************************************)
\* The calls of the three emphasis callbacks, in order: the callback and the
\* delimiter followed by the text it was given.
EmphCalls(tr) ==
  LET h == SelectSeq(tr, LAMBDA v : /\ v.e = "hook"
                                    /\ v.fn \in {"emphasis", "double_emphasis",
                                                  "triple_emphasis"})
  IN [k \in 1..Len(h) |-> <<h[k].fn, h[k].d>>]

\* The texts of the paragraph callback's calls, in order.
ParagraphTexts(tr) ==
  LET h == SelectSeq(tr, LAMBDA v : v.e = "hook" /\ v.fn = "paragraph")
  IN [k \in 1..Len(h) |-> h[k].d]

\* Runs of the letter a, of one byte and more.
Words == SeqsUpTo({"a"}, MaxLen) \ {<<>>}

\* C12: with '*' and '_' as emphasis characters, a word between single
\* delimiters gives exactly one call of the emphasis callback, with the
\* word; between double delimiters exactly one call of the double-emphasis
\* callback, with the word; and a word after an opening delimiter that is
\* never closed gives no call of an emphasis callback, the paragraph being
\* the delimiter and the word as they are in the input.
C12_EmphasisOfStarAndUnderscore ==
  pc = "done" =>
    \A c \in {"*", "_"}, w \in Words :
      /\ ib = <<c>> \o w \o <<c>> => EmphCalls(trace) = <<<<"emphasis", <<c>> \o w>>>>
      /\ ib = <<c, c>> \o w \o <<c, c>>
           => EmphCalls(trace) = <<<<"double_emphasis", <<c>> \o w>>>>
      /\ ib = <<c>> \o w => /\ EmphCalls(trace) = <<>>
                            /\ ParagraphTexts(trace) = <<ib>>

\* C12 witness: the terminal renderer has parsed _a_ and its emphasis
\* callback, called once with a, has rendered it.
C12_UnderscoreEmphasisRendered ==
  /\ pc = "done"
  /\ rndr = to_man
  /\ ib = <<"_", "a", "_">>
  /\ EmphCalls(trace) = <<<<"emphasis", <<"_", "a">>>>>>
  /\ \E k \in 1..Len(trace) :
       trace[k].e = "hook" /\ trace[k].fn = "emphasis" /\ trace[k].r = 1

(***************************************************************************)
(* Code spans.                                                              *)
(***************************************************************************)
\* The number of backticks d begins with.
RECURSIVE LeadingTicks(_)
LeadingTicks(d) ==
  IF d # <<>> /\ Head(d) = BACKTICK THEN 1 + LeadingTicks(Tail(d)) ELSE 0

\* d is a code span: a text without backtick, of one byte or more, between
\* two runs of as many backticks.
IsCodeSpan(d) ==
  LET n == LeadingTicks(d)
  IN /\ n > 0 /\ Len(d) > 2 * n
     /\ \A j \in 1..Len(d) : d[j] = BACKTICK <=> (j <= n \/ j > Len(d) - n)

\* The text between the delimiters of the code span d.
Interior(d) == SubSeq(d, LeadingTicks(d) + 1, Len(d) - LeadingTicks(d))

\* x without its leading and trailing blanks.
RECURSIVE StripBlanks(_)
StripBlanks(x) ==
  IF x = <<>> THEN x
  ELSE IF IsBlank(Head(x)) THEN StripBlanks(Tail(x))
  ELSE IF IsBlank(x[Len(x)]) THEN StripBlanks(SubSeq(x, 1, Len(x) - 1))
  ELSE x

\* The k-th event is parse_inline called on a code span: the next event is
\* the call of the codespan callback and the one after it the return of
\* parse_inline, so that no other callback is called and the text is not
\* parsed.
CodeSpanUnparsed(k) ==
  /\ Len(trace) >= k + 2
  /\ trace[k + 1].e = "hook" /\ trace[k + 1].fn = "codespan"
  /\ trace[k + 2].e = "exit" /\ trace[k + 2].fn = "parse_inline"

\* The calls of parse_inline on a code span.
CodeSpanCalls ==
  {k \in 1..Len(trace) : /\ trace[k].e = "enter" /\ trace[k].fn = "parse_inline"
                          /\ IsCodeSpan(trace[k].d)}

BlankLine(x) == \A j \in 1..Len(x) : IsBlank(x[j])

\* The lines ls from the k-th on without the blank lines: the lines of a
\* paragraph are kept with the newlines between them, the paragraphs follow
\* each other with nothing between them.
RECURSIVE Paragraphs(_, _, _)
Paragraphs(ls, k, inside) ==
  IF k > Len(ls) THEN <<>>
  ELSE IF BlankLine(ls[k]) THEN Paragraphs(ls, k + 1, FALSE)
  ELSE (IF inside THEN <<"\n">> ELSE <<>>) \o ls[k] \o Paragraphs(ls, k + 1, TRUE)

\* C14 as stated: the output of a parse of plain text under literal
\* passthrough is the input, byte for byte.
C14_PlainTextIsOutput ==
  pc = "done" => ob = ib

\* C14 amended: the output of a parse of plain text under literal
\* passthrough is the input without its blank lines and without the newline
\* that ends each paragraph; it is the input, byte for byte, when the input
\* is one paragraph with no newline after its last line.
C14_PlainTextWithoutParagraphEnds ==
  pc = "done" =>
    /\ ob = Paragraphs(SplitLines(ib), 1, FALSE)
    /\ (\A j \in 1..Len(SplitLines(ib)) : ~BlankLine(SplitLines(ib)[j]))
         /\ (ib # <<>> => ib[Len(ib)] # "\n")
       => ob = ib

\* C14 witness: a paragraph of two lines with no newline after the second
\* one was parsed under literal passthrough, and the output is the input.
C14_TwoLinesCopied ==
  /\ pc = "done"
  /\ rndr = pass_table
  /\ ib = <<"a", " ", "b", "\n", "a">>
  /\ ob = ib
  /\ \E k \in 1..Len(trace) : trace[k].e = "hook" /\ trace[k].fn = "paragraph"

(***************************************************************************)
(* Tables.                                                                  *)
(***************************************************************************)
\* The parts of a line between its '|'.
RECURSIVE SplitCells(_, _)
SplitCells(line, cell) ==
  IF line = <<>> THEN <<cell>>
  ELSE IF Head(line) = "|" THEN <<cell>> \o SplitCells(Tail(line), <<>>)
  ELSE SplitCells(Tail(line), Append(cell, Head(line)))

\* A cell without the blanks around it.
RECURSIVE TrimCell(_)
TrimCell(cell) ==
  IF cell # <<>> /\ IsBlank(Head(cell)) THEN TrimCell(Tail(cell))
  ELSE IF cell # <<>> /\ IsBlank(cell[Len(cell)]) THEN TrimCell(SubSeq(cell, 1, Len(cell) - 1))
  ELSE cell

\* The cells present in a row: the parts between its '|', where a '|' at
\* the start of the row and a '|' at its end delimit no cell.
CellsOf(line) ==
  LET t == From(line, skip_blanks(line, 0, Len(line)))
      parts == SplitCells(IF t # <<>> /\ Head(t) = "|" THEN Tail(t) ELSE t, <<>>)
      inner == IF TrimCell(parts[Len(parts)]) = <<>> THEN SubSeq(parts, 1, Len(parts) - 1)
               ELSE parts
  IN [k \in 1..Len(inner) |-> TrimCell(inner[k])]

\* The rows of the table that starts with the lines ls: the header row and
\* the lines after the header rule up to the first one without a '|' or
\* without a cell (a '|' alone delimits nothing).
RECURSIVE BodyRows(_, _)
BodyRows(ls, k) ==
  IF k > Len(ls) \/ (\A n \in 1..Len(ls[k]) : ls[k][n] # "|") \/ CellsOf(ls[k]) = <<>>
  THEN <<>>
  ELSE <<ls[k]>> \o BodyRows(ls, k + 1)

\* The texts table_cell was called with, row by row: the calls before each
\* call of table_row.
RECURSIVE RowCells(_, _, _)
RowCells(tr, k, cells) ==
  IF k > Len(tr) THEN <<>>
  ELSE IF tr[k].e = "hook" /\ tr[k].fn = "table_cell"
       THEN RowCells(tr, k + 1, Append(cells, tr[k].d))
  ELSE IF tr[k].e = "hook" /\ tr[k].fn = "table_row"
       THEN <<cells>> \o RowCells(tr, k + 1, <<>>)
  ELSE RowCells(tr, k + 1, cells)

\* C11: a header line followed by a header rule is a table whatever the
\* numbers of cells of the rows after it: one table is rendered, and
\* table_cell is called once for each cell present in each row, with the
\* text of the cell, however many cells the header row has.
C11_TableCellOncePerCell ==
  pc = "done" =>
    LET ls == SplitLines(ib)
        rows == <<ls[1]>> \o BodyRows(ls, 3)
    IN /\ RowCells(trace, 1, <<>>) = [k \in 1..Len(rows) |-> CellsOf(rows[k])]
       /\ Len(SelectSeq(trace, LAMBDA v : v.e = "hook" /\ v.fn = "table")) = 1

\* C11 witness: a finished parse of a table whose header row has two cells,
\* whose first row has two and whose second row has three.
C11_ThreeCellsUnderTwoCellHeader ==
  /\ pc = "done"
  /\ LET cells == RowCells(trace, 1, <<>>)
     IN /\ Len(cells) = 3
        /\ Len(cells[1]) = 2 /\ Len(cells[2]) = 2 /\ Len(cells[3]) = 3
        /\ \A n \in 1..3 : cells[3][n] # <<>>

(***************************************************************************)
(* Threads.                                                                 *)
(***************************************************************************)
\* C10 as stated: under every interleaving each thread's ob holds exactly
\* the bytes of the operations its own callback has performed, which are the
\* bytes it holds when the callback runs alone.
C10_ThreadsKeepTheirBytes ==
  pc = "callbacks" =>
    \A k \in Threads : tob[k] = RunOps(<<>>, SubSeq(tops[k], 1, tpc[k] - 1))

(***************************************************************************)
(* Terminal attributes switched on and reset.                               *)
(***************************************************************************)
\* out has a capability string at byte i.
CapAt(out, i, caps) == At(out, i) = ESC /\ i + 1 < Len(out) /\ At(out, i + 1) \in caps

AttributeOn == {"setf", "smul", "bold"}

\* Every attribute switched on in out is followed by a reset.
AllReset(out) ==
  \A i \in 0..(Len(out) - 1) :
    CapAt(out, i, AttributeOn) => \E j \in (i + 1)..(Len(out) - 1) : CapAt(out, j, {"sgr0"})

\* The text a callback was given: an emphasis event holds the delimiter first.
TextOf(v) == IF v.fn = "header" THEN v.d ELSE Tail(v.d)

\* out switches an attribute on, then holds txt, then the reset, and no
\* capability string after the reset.
OnTextReset(out, txt) ==
  \E i \in 0..(Len(out) - 1) :
    /\ CapAt(out, i, {"sgr0"})
    /\ i >= Len(txt) /\ Sub(out, i - Len(txt), i) = txt
    /\ \E j \in 0..(i - Len(txt) - 1) : CapAt(out, j, AttributeOn)
    /\ \A j \in (i + 2)..(Len(out) - 1) : At(out, j) # ESC

\* C19: under the terminal renderer every call of the header, emphasis or
\* double-emphasis callback that returned non-zero has appended an attribute,
\* then its text, then sgr0; a call that returned 0 has appended nothing; and
\* in the output every attribute switched on is followed by a reset.
C19_AttributesAreReset ==
  rndr = to_man =>
    /\ \A k \in 1..Len(trace) :
         (trace[k].e = "hook" /\ trace[k].fn \in {"header", "emphasis", "double_emphasis"})
           => IF trace[k].r = 0 THEN trace[k].out = <<>>
              ELSE OnTextReset(trace[k].out, TextOf(trace[k])) /\ AllReset(trace[k].out)
    /\ AllReset(ob)

\* C19 witness: a header of level 3 holding an emphasis has been rendered
\* after an emphasis callback given no text returned 0.
C19_NestedRenderedAndEmptyDeclined ==
  /\ pc = "calls"
  /\ Len(trace) = 3
  /\ trace[1].fn = "emphasis" /\ trace[1].r = 0 /\ trace[1].out = <<>>
  /\ trace[2].fn = "emphasis" /\ trace[2].r = 1 /\ TextOf(trace[2]) = <<"a">>
  /\ trace[3].fn = "header" /\ TextOf(trace[3]) = trace[2].out
  /\ ob = <<"\n", " ", " ", ESC, "setf", "1", ESC, "smul", ESC, "bold",
            ESC, "bold", "a", ESC, "sgr0", ESC, "sgr0", "\n", " ", " ", " ", " ">>

====
